---- MODULE Spec2Model ----
(***************************************************************************)
(* A model of pgsrv, a server side of the PostgreSQL v3 wire protocol:     *)
(* the startup handshake and authentication, the cancellation registry,    *)
(* the transport with its extended-query transaction buffer, and the       *)
(* session's query loop.                                                   *)
(*                                                                         *)
(* Every connection is served by one goroutine running session.Serve.      *)
(* pc[c] is the position of that goroutine.  An action is one step of the  *)
(* goroutine between two points at which another goroutine can observe or  *)
(* change shared state (the registry allSessions, a session's Secret and   *)
(* CancelFunc) or at which the goroutine blocks on the client.             *)
(***************************************************************************)
EXTENDS Integers, Sequences, FiniteSets, TLC

\* ------------------------------------------------------------------ bounds
\* number of connections accepted by the server
NConn == 2
\* rand.Int31() is modelled at reduced width: it draws from 0..PidMax, and an
\* int32 ranges over -(PidMax+1)..PidMax
PidMax == 1
\* the secrets rand.Int31() can draw are 0..SecretMax
SecretMax == 1
\* client messages read by one session's query loop
MaxMsgs == 4
\* rows a Queryer's result holds, and rows an Execer's result reports as
\* affected
MaxRows == 2

\* ------------------------------------------------------- program constants
\* protocol.TransactionStatus: the zero value, TransactionEnded, TransactionFailed
NoStatus == 0
TransactionEnded == 1
TransactionFailed == 2

Conns == 1..NConn
\* the value of a registry slot that holds no session
NoSess == 0
Int31 == 0..PidMax
Int32 == (0 - (PidMax + 1))..PidMax
Secrets == 0..SecretMax

\* pid++ on an int32
IncPid(p) == IF p = PidMax THEN 0 - (PidMax + 1) ELSE p + 1

\* ---------------------------------------------------------- backend messages
AuthenticationOK == [t |-> "AuthenticationOK"]
AuthenticationCleartextPassword == [t |-> "AuthenticationCleartextPassword"]
AuthenticationMD5Password(salt) == [t |-> "AuthenticationMD5Password", salt |-> salt]
\* faulty variant that always announces TLS support.
TLSResponseAlwaysS(supported) == [t |-> "TLSResponse", b |-> "S"]

\* TLSResponse (unnamed/part_012:99): the single byte 'S' or 'N'
TLSResponse(supported) == [t |-> "TLSResponse", b |-> IF supported THEN "S" ELSE "N"]
ParameterStatus(name, value) == [t |-> "ParameterStatus", name |-> name, value |-> value]
BackendKeyData(pid, secret) == [t |-> "BackendKeyData", pid |-> pid, secret |-> secret]
ReadyForQuery == [t |-> "ReadyForQuery", status |-> "I"]
ParseComplete == [t |-> "ParseComplete"]
BindComplete == [t |-> "BindComplete"]
PortalSuspended == [t |-> "PortalSuspended"]
ParameterDescription == [t |-> "ParameterDescription"]
RowDescription == [t |-> "RowDescription"]
DataRow(i) == [t |-> "DataRow", row |-> i]
CommandComplete(tag) == [t |-> "CommandComplete", tag |-> tag]
ErrorResponse(severity, code, what) ==
    [t |-> "ErrorResponse", severity |-> severity, code |-> code, what |-> what]

\* Message.Type(): the first byte of the message
Type(m) ==
    CASE m.t = "ErrorResponse" -> "E"
      [] m.t = "ReadyForQuery" -> "Z"
      [] m.t = "ParseComplete" -> "1"
      [] m.t = "BindComplete" -> "2"
      [] m.t = "PortalSuspended" -> "s"
      [] m.t = "ParameterDescription" -> "t"
      [] m.t = "RowDescription" -> "T"
      [] m.t = "DataRow" -> "D"
      [] m.t = "CommandComplete" -> "C"
      [] m.t = "ParameterStatus" -> "S"
      [] m.t = "BackendKeyData" -> "K"
      [] m.t = "TLSResponse" -> m.b
      [] OTHER -> "R"

IsError(m) == Type(m) = "E"

\* ----------------------------------------------------------------- SQL text
\* SQL texts of one command each, with the node the parser makes of them; a
\* VariableSetStmt is written with its Kind
CommandTexts ==
    {[sql |-> "SET a = 1", node |-> "VariableSetStmt/VAR_SET_VALUE"],
     [sql |-> "SET a FROM CURRENT", node |-> "VariableSetStmt/VAR_SET_CURRENT"],
     [sql |-> "SET a TO DEFAULT", node |-> "VariableSetStmt/VAR_SET_DEFAULT"],
     [sql |-> "SET TRANSACTION READ ONLY", node |-> "VariableSetStmt/VAR_SET_MULTI"],
     [sql |-> "RESET a", node |-> "VariableSetStmt/VAR_RESET"],
     [sql |-> "RESET ALL", node |-> "VariableSetStmt/VAR_RESET_ALL"],
     [sql |-> "CREATE TABLE t AS SELECT 1", node |-> "CreateTableAsStmt"],
     [sql |-> "DELETE", node |-> "DeleteStmt"],
     [sql |-> "FETCH", node |-> "FetchStmt"],
     [sql |-> "COPY", node |-> "CopyStmt"],
     [sql |-> "VACUUM", node |-> "VacuumStmt"],
     [sql |-> "CREATE ROLE", node |-> "CreateRoleStmt"],
     [sql |-> "CREATE VIEW", node |-> "ViewStmt"],
     [sql |-> "CREATE TABLE", node |-> "CreateStmt"],
     [sql |-> "UPDATE", node |-> "UpdateStmt"],
     [sql |-> "DROP TABLE", node |-> "DropStmt"],
     [sql |-> "TRUNCATE", node |-> "TruncateStmt"]}

\* The external parser on the SQL texts the model's clients send: an error, or
\* the list of statement nodes.
ParseSQL(sql) ==
    CASE sql = "SELECT 1" -> [err |-> FALSE, stmts |-> <<"SelectStmt">>]
      [] sql = "INSERT" -> [err |-> FALSE, stmts |-> <<"InsertStmt">>]
      [] sql = "SELECT 1; INSERT" -> [err |-> FALSE, stmts |-> <<"SelectStmt", "InsertStmt">>]
      [] sql = "PREPARE p AS SELECT 1" -> [err |-> FALSE, stmts |-> <<"PrepareStmt">>]
      [] sql = "" -> [err |-> FALSE, stmts |-> <<>>]
      [] sql \in {t.sql : t \in CommandTexts}
            -> [err |-> FALSE,
                stmts |-> <<(CHOOSE t \in CommandTexts : t.sql = sql).node>>]
      [] OTHER -> [err |-> TRUE, stmts |-> <<>>]

\* the name a PREPARE statement of the model's SQL texts gives its statement
PrepareName == "p"

\* -------------------------------------------------------------------- state
VARIABLES
    authenticator,  \* server.authenticator: "trust", "plain" or "md5"
    allSessions,    \* the cancellation registry: pid -> connection or NoSess
    panicked,       \* a goroutine panicked: the process is gone
    pc,             \* position of the goroutine serving the connection
    wire,           \* what has been written to the connection, in order
    connClosed,     \* Conn.Close() has been called
    passed,         \* Handshake.passed
    args,           \* session.Args: the set of startup argument keys
    salt,           \* the salt of the MD5 password request
    Secret,         \* session.Secret
    CancelFunc,     \* session.CancelFunc: "nil" or "set"
    ctxDone,        \* session.Ctx has been cancelled
    pid,            \* startUp's local pid
    loopOk,         \* startUp's locals s1, ok: the last Load found a session
    reply,          \* the message the authenticator read (its local m)
    startupMsg,     \* the raw message Handshake.Init read last (its local res)
    req,            \* the (pid, secret) of the CancelRequest being handled
    loaded,         \* what the CancelRequest's Load returned
    transaction,    \* Transport.transaction: NoTxn or its out buffer
    stmts,          \* session.stmts
    pendingStmts,   \* session.pendingStmts
    portals,        \* session.portals
    msg,            \* the frontend message NextFrontendMessage returned
    ts,             \* the TransactionStatus it returned
    run,            \* the query being run: statements left, the call's outcome
    callCtx,        \* the context of the Queryer/Execer call in flight
    nread,          \* client messages read by the query loop
    limit,          \* client messages the query loop may read
    script,         \* the messages a scripted client sends, in order
    stream,         \* the bytes the client has sent that have not been read
    frame,          \* the bytes of the raw message readRawMessage returned last
    sessArgs,       \* session.Args as Message.StartupArgs decoded it from bytes
    produced,       \* history: messages handed to Transport.Write in this transaction
    txnWire,        \* history: length of the wire when the transaction began
    txnStmts,       \* history: session.stmts when the transaction began
    flushed,        \* history: the last transaction's end: what was flushed, where
    readAt,         \* history: length of the wire when the last message was read
    fired,          \* history: hooks fired, by which request
    served          \* history: CancelRequests handled

vars == <<authenticator, allSessions, panicked, pc, wire, connClosed, passed, args,
          salt, Secret, CancelFunc, ctxDone, pid, loopOk, reply, req, loaded, transaction,
          stmts, pendingStmts, portals, msg, ts, run, callCtx, nread, limit, script, stream, frame, sessArgs, startupMsg,
          produced, txnWire, txnStmts, flushed, readAt, fired, served>>

\* the variables of one session's transport and query loop
loopVars == <<transaction, stmts, pendingStmts, portals, msg, ts, run, callCtx,
              nread, produced, txnWire, txnStmts, flushed, readAt>>
\* the variables of a startUp
startVars == <<passed, args, salt, Secret, CancelFunc, pid, loopOk, reply, req, loaded>>

\* --------------------------------------------------------------- transport
\* Transport.transaction: nil, or a transaction with its out buffer
NoTxn == [active |-> FALSE, out |-> <<>>]
NewTxn == [active |-> TRUE, out |-> <<>>]

\* faulty variant that never sees an error.
hasErrorNever(out) == FALSE

\* transaction.hasError (protocol/extend.go:64)
hasError(out) == Len(out) > 0 /\ IsError(out[Len(out)])

\* transaction.Write (protocol/extend.go:56): the out buffer afterwards.
\* TxnWriteAlways is the faulty variant that appends after an error too.
TxnWriteAlways(out, m) == Append(out, m)
TxnWrite(out, m) == IF hasError(out) THEN out ELSE Append(out, m)

\* The state a write goes through: the transaction, the wire, whether the
\* connection is closed, and the error of the last write.
Chan(tr, w, closed) == [tr |-> tr, wire |-> w, closed |-> closed, err |-> FALSE]

\* Transport.write (protocol/transport.go:98): a write to a closed connection fails
ConnWrite(ch, m) ==
    IF ch.closed THEN [ch EXCEPT !.err = TRUE]
    ELSE [ch EXCEPT !.wire = Append(ch.wire, m), !.err = FALSE]

\* Transport.Write (protocol/transport.go:91)
TransportWrite(ch, m) ==
    IF ch.tr.active
    THEN [ch EXCEPT !.tr.out = TxnWrite(ch.tr.out, m), !.err = FALSE]
    ELSE ConnWrite(ch, m)

\* writing a list of messages, stopping at the first error
\* (session.handleFrontendMessage, session.go:188)
RECURSIVE WriteAll(_, _)
WriteAll(ch, ms) ==
    IF ms = <<>> THEN ch
    ELSE LET c1 == TransportWrite(ch, Head(ms))
         IN IF c1.err THEN c1 ELSE WriteAll(c1, Tail(ms))

\* transaction.flush (protocol/extend.go:68): out[0] is written and removed
\* until out is empty or a write fails.  flushReversed is the faulty variant
\* that writes the last message first.
RECURSIVE flushReversed(_)
flushReversed(ch) ==
    IF Len(ch.tr.out) = 0 THEN ch
    ELSE LET n == Len(ch.tr.out)
             c1 == ConnWrite(ch, ch.tr.out[n])
         IN IF c1.err THEN c1
            ELSE flushReversed([c1 EXCEPT !.tr.out = SubSeq(ch.tr.out, 1, n - 1)])
RECURSIVE flush(_)
flush(ch) ==
    IF Len(ch.tr.out) = 0 THEN ch
    ELSE LET c1 == ConnWrite(ch, ch.tr.out[1])
         IN IF c1.err THEN c1
            ELSE flush([c1 EXCEPT !.tr.out = Tail(ch.tr.out)])

\* Transport.endTransaction (protocol/transport.go:38)
endTransaction(ch) == [flush(ch) EXCEPT !.tr = NoTxn]

\* ------------------------------------------------------------ session maps
Names == {"", "s1", "p"}
NoStmt == [rawSQL |-> "-", query |-> "-"]
NoPortal == [srcPreparedStatement |-> "-", params |-> FALSE, result |-> [kind |-> "nil"]]
NoResult == [kind |-> "nil"]
EmptyStmts == [n \in Names |-> NoStmt]
EmptyPortals == [n \in Names |-> NoPortal]
NoMsg == [t |-> "none"]
NoFlush == [at |-> 0, by |-> "none", out |-> <<>>, produced |-> <<>>]
\* the driver.Result of a call that returned none
NoRes == [kind |-> "nil"]
\* a query that is not being run.  stmts are the statements query.Run has
\* still to go through, err says that the Queryer or the Execer returned an
\* error, res is the result the Execer returned, and handed is the message
\* query.Run handed to its transport's Write
NoRun == [stmts |-> <<>>, err |-> FALSE, res |-> NoRes, handed |-> NoMsg]

\* faulty variant that keeps the unnamed statement.
deleteUnnamedNever(s) == s

\* delete(s.stmts, "") after a simple Query (session.go:178)
deleteUnnamed(s) == [s EXCEPT ![""] = NoStmt]

\* faulty variant that looks in the live map only.
getPreparedStmtLiveOnly(p, s, name) == s[name]

\* session.getPreparedStmt (session.go:143): pending first, then live
getPreparedStmt(p, s, name) ==
    IF p[name] # NoStmt THEN p[name] ELSE s[name]

\* session.handleTransactionState (session.go:153): the maps afterwards.
\* handleStateAlwaysPromote is the faulty variant that copies pending into the
\* live map on a failed end as well.
handleStateAlwaysPromote(state, s, p, po) ==
    IF state \in {TransactionFailed, TransactionEnded}
    THEN [stmts |-> [n \in Names |-> IF p[n] # NoStmt THEN p[n] ELSE s[n]],
          pendingStmts |-> EmptyStmts, portals |-> EmptyPortals]
    ELSE [stmts |-> s, pendingStmts |-> p, portals |-> po]
handleTransactionState(state, s, p, po) ==
    IF state \in {TransactionFailed, TransactionEnded}
    THEN [stmts |-> IF state = TransactionEnded
                    THEN [n \in Names |-> IF p[n] # NoStmt THEN p[n] ELSE s[n]]
                    ELSE s,
          pendingStmts |-> EmptyStmts,
          portals |-> EmptyPortals]
    ELSE [stmts |-> s, pendingStmts |-> p, portals |-> po]

\* ----------------------------------------------------------- query results
\* the statement nodes query.Run hands to the Queryer (query.go:178)
QueryNodes == {"SelectStmt", "VariableShowStmt"}

\* a VariableSetStmt whose Kind is none of the six the switch of tagger.Tag
\* names (query.go:282)
UnlistedSet == "VariableSetStmt/unlisted"

\* the tag of a result that does not implement ResultTag
NoTag == "none"
\* the tags an Execer's result gives itself: none, or one of its own
OwnTags == {NoTag, "MERGE 7"}

\* the driver.Result an Execer returns (query.go:239): what its RowsAffected
\* returns, a count or an error, and, when it implements ResultTag, what its
\* Tag returns, a tag of its own or an error
CommandResult(affected, affErr, own, ownErr) ==
    [kind |-> "command", affected |-> affected, affErr |-> affErr,
     own |-> own, ownErr |-> ownErr]
Results ==
    {CommandResult(n, e, NoTag, FALSE) : n \in 0..MaxRows, e \in BOOLEAN}
    \cup {CommandResult(n, e, o, oe) :
            n \in 0..MaxRows, e \in BOOLEAN, o \in OwnTags \ {NoTag}, oe \in BOOLEAN}

\* the switch of tagger.Tag (query.go:273-312): the word of the tag
TagWord(node) ==
    CASE node \in {"VariableSetStmt/VAR_SET_VALUE", "VariableSetStmt/VAR_SET_CURRENT",
                   "VariableSetStmt/VAR_SET_DEFAULT", "VariableSetStmt/VAR_SET_MULTI"} -> "SET"
      [] node \in {"VariableSetStmt/VAR_RESET", "VariableSetStmt/VAR_RESET_ALL"} -> "RESET"
      [] node = UnlistedSet -> "???"
      [] node = "InsertStmt" -> "INSERT 0"
      [] node = "CreateTableAsStmt" -> "SELECT"
      [] node = "DeleteStmt" -> "DELETE"
      [] node = "FetchStmt" -> "FETCH"
      [] node = "CopyStmt" -> "COPY"
      [] node = "VacuumStmt" -> "VACUUM"
      [] node = "CreateRoleStmt" -> "CREATE ROLE"
      [] node = "ViewStmt" -> "CREATE VIEW"
      [] node = "CreateStmt" -> "CREATE TABLE"
      [] node = "UpdateStmt" -> "UPDATE"
      [] OTHER -> "UPDATE"

\* faulty variant that appends the count to every tag.
skipResultsNever(node) == FALSE

\* skipResults of tagger.Tag (query.go:272-307): set for every
\* VariableSetStmt, whatever its Kind, and for four other nodes
skipResults(node) ==
    node \in {"VariableSetStmt/VAR_SET_VALUE", "VariableSetStmt/VAR_SET_CURRENT",
              "VariableSetStmt/VAR_SET_DEFAULT", "VariableSetStmt/VAR_SET_MULTI",
              "VariableSetStmt/VAR_RESET", "VariableSetStmt/VAR_RESET_ALL", UnlistedSet,
              "VacuumStmt", "CreateRoleStmt", "ViewStmt", "CreateStmt"}

\* tagger.Tag (query.go:270): the tag and the error it returns.  The count is
\* asked for, and an error of RowsAffected returned, only when skipResults is
\* not set (query.go:314-320)
Tag(node, affected, affErr) ==
    IF skipResults(node) THEN [tag |-> TagWord(node), err |-> FALSE]
    ELSE IF affErr THEN [tag |-> TagWord(node), err |-> TRUE]
    ELSE [tag |-> TagWord(node) \o " " \o ToString(affected), err |-> FALSE]

\* t.Tag() in query.Exec (query.go:244-249): t is the result itself when it
\* implements ResultTag, and a tagger of the result and the node otherwise
ExecTag(node, r) ==
    IF r.own # NoTag THEN [tag |-> r.own, err |-> r.ownErr]
    ELSE Tag(node, r.affected, r.affErr)

\* protocol.ErrorResponse(err) of an error that is not a pgsrv Err
CallError == ErrorResponse("ERROR", "XX000", "call")

\* The message query.Run has made for its transport's Write when the call
\* for node returns.  The Queryer's error (query.go:194), the Execer's
\* (query.go:241) and the tag's (query.go:251) make an ErrorResponse; the
\* Queryer's rows make RowDescription first (query.go:205); the Execer's
\* result makes CommandComplete with its tag (query.go:253).
Handed(node, ok, r) ==
    IF ~ok THEN CallError
    ELSE IF node \in QueryNodes THEN RowDescription
    ELSE IF ExecTag(node, r).err THEN CallError
    ELSE CommandComplete(ExecTag(node, r).tag)

\* --------------------------------------------------------- frontend messages
Parse(name, sql, oidsKnown) == [t |-> "Parse", name |-> name, sql |-> sql, oids |-> oidsKnown]
Bind(stmt, portal) == [t |-> "Bind", stmt |-> stmt, portal |-> portal]
Describe(objectType, name) == [t |-> "Describe", objectType |-> objectType, name |-> name]
Execute(portal, maxRows) == [t |-> "Execute", portal |-> portal, maxRows |-> maxRows]
Query(sql) == [t |-> "Query", sql |-> sql]
Sync == [t |-> "Sync"]
Terminate == [t |-> "Terminate"]
Flush == [t |-> "Flush"]
\* the read fails: the client has closed the connection
EOF == [t |-> "EOF"]

\* ------------------------------------------------------------ the query loop
\* what a step of one session's query loop leaves alone
restUnchanged ==
    UNCHANGED <<authenticator, allSessions, panicked, passed, args, salt, Secret,
                CancelFunc, ctxDone, pid, loopOk, reply, req, loaded, limit, script, stream, frame, sessArgs, startupMsg, fired, served>>

TheChan(c) == Chan(transaction[c], wire[c], connClosed[c])

\* the session's goroutine returns from Serve with an error; server.Serve's
\* deferred conn.Close() runs (srv.go)
ServeFails(c) ==
    /\ pc' = [pc EXCEPT ![c] = "failed"]
    /\ connClosed' = [connClosed EXCEPT ![c] = TRUE]

\* the messages a handler hands to Transport.Write, as the history sees them
Produce(c, ms) ==
    produced' = [produced EXCEPT ![c] = IF transaction[c].active THEN @ \o ms ELSE @]

\* faulty variant that announces readiness before every read.
BeforeReadAlways(ch) == ConnWrite(ch, ReadyForQuery)

\* the start of Transport.NextFrontendMessage (protocol/transport.go:52): when
\* no transaction is active ReadyForQuery is written before the read
BeforeRead(ch) == IF ch.tr.active THEN ch ELSE ConnWrite(ch, ReadyForQuery)

\* faulty variant that begins a transaction inside a transaction too.
beginsTransactionAlways(inTxn, t) == t \in {"Parse", "Bind", "Describe"}

\* the message types that begin a transaction when none is active
\* (protocol/transport.go:66)
beginsTransaction(inTxn, t) == ~inTxn /\ t \in {"Parse", "Bind", "Describe"}

\* the message types that end the active transaction (protocol/transport.go:72)
endsTransaction(inTxn, t) == inTxn /\ t \in {"Query", "Sync"}

\* Transport.NextFrontendMessage outside a transaction, up to its read
\* (protocol/transport.go:52-59): ReadyForQuery is written, and the goroutine
\* then waits in readFrontendMessage until the client has sent a message.
\* Inside a transaction nothing is written before the read.
WriteReadyForQuery(c) ==
    /\ ~panicked
    /\ pc[c] = "next"
    /\ nread[c] < limit
    /\ LET c1 == BeforeRead(TheChan(c))
       IN /\ c1 # TheChan(c)
          /\ wire' = [wire EXCEPT ![c] = c1.wire]
          /\ IF c1.err
             THEN ServeFails(c)
             ELSE /\ pc' = [pc EXCEPT ![c] = "read"]
                  /\ UNCHANGED connClosed
    /\ UNCHANGED loopVars
    /\ restUnchanged

\* the goroutine is waiting in the read of Transport.NextFrontendMessage:
\* after the ReadyForQuery outside a transaction, at once inside one
AtRead(c) == pc[c] = "read" \/ (pc[c] = "next" /\ BeforeRead(TheChan(c)) = TheChan(c))

\* Transport.NextFrontendMessage from its read on (protocol/transport.go:53,
\* :60-84): the read returns m, or fails; Parse, Bind and Describe begin a
\* transaction when none is active, Query and Sync end the active one
NextFrontendMessage(c, m) ==
    /\ ~panicked
    /\ AtRead(c)
    /\ nread[c] < limit
    /\ LET inTxn == transaction[c].active
           c1 == TheChan(c)
           readErr == connClosed[c] \/ m = EOF
           begins == beginsTransaction(inTxn, m.t)
           ends == endsTransaction(inTxn, m.t)
           c2 == IF ends THEN endTransaction(c1)
                 ELSE IF begins THEN [c1 EXCEPT !.tr = NewTxn]
                 ELSE c1
       IN IF readErr
          THEN /\ ServeFails(c)
               /\ UNCHANGED wire
               /\ UNCHANGED loopVars
          ELSE /\ wire' = [wire EXCEPT ![c] = c2.wire]
               /\ transaction' = [transaction EXCEPT ![c] = c2.tr]
               /\ msg' = [msg EXCEPT ![c] = m]
               /\ ts' = [ts EXCEPT ![c] =
                            IF ends
                            THEN IF hasError(transaction[c].out)
                                 THEN TransactionFailed ELSE TransactionEnded
                            ELSE NoStatus]
               /\ nread' = [nread EXCEPT ![c] = @ + 1]
               /\ produced' = [produced EXCEPT ![c] = IF begins \/ ends THEN <<>> ELSE @]
               /\ txnWire' = [txnWire EXCEPT ![c] = IF begins THEN Len(c1.wire) ELSE @]
               /\ txnStmts' = [txnStmts EXCEPT ![c] = IF begins THEN stmts[c] ELSE @]
               /\ readAt' = [readAt EXCEPT ![c] = Len(c2.wire)]
               /\ flushed' = [flushed EXCEPT ![c] =
                                 IF ends
                                 THEN [at |-> Len(c1.wire), by |-> m.t,
                                       out |-> SubSeq(c2.wire, Len(c1.wire) + 1, Len(c2.wire)),
                                       produced |-> produced[c]]
                                 ELSE @]
               /\ IF c2.err
                  THEN ServeFails(c)
                  ELSE /\ pc' = [pc EXCEPT ![c] = "state"]
                       /\ UNCHANGED connClosed
               /\ UNCHANGED <<stmts, pendingStmts, portals, run, callCtx>>
    /\ restUnchanged

\* session.handleTransactionState (session.go:153)
HandleTransactionState(c) ==
    /\ ~panicked
    /\ pc[c] = "state"
    /\ LET r == handleTransactionState(ts[c], stmts[c], pendingStmts[c], portals[c])
       IN /\ stmts' = [stmts EXCEPT ![c] = r.stmts]
          /\ pendingStmts' = [pendingStmts EXCEPT ![c] = r.pendingStmts]
          /\ portals' = [portals EXCEPT ![c] = r.portals]
    /\ pc' = [pc EXCEPT ![c] = "dispatch"]
    /\ UNCHANGED <<wire, connClosed, transaction, msg, ts, run, callCtx, nread,
                   produced, txnWire, txnStmts, flushed, readAt>>
    /\ restUnchanged

\* the end of session.handleFrontendMessage (session.go:188): res is written,
\* and the handler's error (replaced by that of the last write when res is not
\* empty) is returned to Serve
Respond(c, res, err) ==
    LET c1 == WriteAll(TheChan(c), res)
        failed == IF res = <<>> THEN err ELSE c1.err
    IN /\ wire' = [wire EXCEPT ![c] = c1.wire]
       /\ transaction' = [transaction EXCEPT ![c] = c1.tr]
       /\ Produce(c, res)
       /\ IF failed
          THEN ServeFails(c)
          ELSE /\ pc' = [pc EXCEPT ![c] = "next"]
               /\ UNCHANGED connClosed

Dispatching(c, t) == ~panicked /\ pc[c] = "dispatch" /\ msg[c].t = t

\* case *pgproto3.Terminate (session.go:169)
HandleTerminate(c) ==
    /\ Dispatching(c, "Terminate")
    /\ connClosed' = [connClosed EXCEPT ![c] = TRUE]
    /\ pc' = [pc EXCEPT ![c] = "next"]
    /\ UNCHANGED <<wire>>
    /\ UNCHANGED loopVars
    /\ restUnchanged

\* a message no case handles: Sync, Flush, ... (session.go:168)
HandleOther(c) ==
    /\ ~panicked
    /\ pc[c] = "dispatch"
    /\ msg[c].t \in {"Sync", "Flush"}
    /\ Respond(c, <<>>, FALSE)
    /\ UNCHANGED <<stmts, pendingStmts, portals, msg, ts, run, callCtx, nread,
                   txnWire, txnStmts, flushed, readAt>>
    /\ restUnchanged

\* the code of SyntaxError, whose definition is not among the sources: the
\* code the specification gives for a syntax error
SyntaxErrorCode == "42601"

\* session.prepare (session.go:290), called for a Parse
HandleParse(c) ==
    /\ Dispatching(c, "Parse")
    /\ LET tree == ParseSQL(msg[c].sql)
           name == msg[c].name
           stored == [rawSQL |-> msg[c].sql,
                      query |-> IF Len(tree.stmts) = 1 THEN tree.stmts[1] ELSE "nil"]
       IN IF tree.err
          THEN /\ Respond(c, <<>>, TRUE)
               /\ UNCHANGED pendingStmts
          ELSE IF Len(tree.stmts) > 1
          THEN /\ Respond(c, <<ErrorResponse("ERROR", SyntaxErrorCode, "multiple commands")>>, FALSE)
               /\ UNCHANGED pendingStmts
          ELSE IF ~msg[c].oids
          THEN /\ Respond(c, <<>>, TRUE)
               /\ UNCHANGED pendingStmts
          ELSE /\ pendingStmts' = [pendingStmts EXCEPT ![c][name] = stored]
               /\ Respond(c, <<ParseComplete>>, FALSE)
    /\ UNCHANGED <<stmts, portals, msg, ts, run, callCtx, nread, txnWire, txnStmts, flushed, readAt>>
    /\ restUnchanged

\* session.bind (session.go:359)
HandleBind(c) ==
    /\ Dispatching(c, "Bind")
    /\ IF getPreparedStmt(pendingStmts[c], stmts[c], msg[c].stmt) = NoStmt
       THEN /\ Respond(c, <<ErrorResponse("ERROR", "XX000", "prepared statement not exist")>>, FALSE)
            /\ UNCHANGED portals
       ELSE /\ portals' = [portals EXCEPT ![c][msg[c].portal] =
                              [srcPreparedStatement |-> msg[c].stmt, params |-> FALSE,
                               result |-> NoResult]]
            /\ Respond(c, <<BindComplete>>, FALSE)
    /\ UNCHANGED <<stmts, pendingStmts, msg, ts, run, callCtx, nread, txnWire, txnStmts, flushed, readAt>>
    /\ restUnchanged

\* session.describe (session.go:334)
HandleDescribe(c) ==
    /\ Dispatching(c, "Describe")
    /\ IF msg[c].objectType = "S"
       THEN IF getPreparedStmt(pendingStmts[c], stmts[c], msg[c].name) = NoStmt
            THEN Respond(c, <<ErrorResponse("ERROR", "XX000", "prepared statement not exist")>>, FALSE)
            ELSE Respond(c, <<ParameterDescription, RowDescription>>, FALSE)
       ELSE IF msg[c].objectType = "P"
       THEN Respond(c, <<RowDescription>>, FALSE)
       ELSE Respond(c, <<>>, TRUE)
    /\ UNCHANGED <<stmts, pendingStmts, portals, msg, ts, run, callCtx, nread,
                   txnWire, txnStmts, flushed, readAt>>
    /\ restUnchanged

\* portal.result == nil (session.go:239): the portal's statement has not run
hasNoResult(portal) == portal.result = NoResult

\* session.execute (session.go:228) up to the call of Run.  Run parses the
\* statement's text again (query.go:150).  A portal that has its result
\* would answer with the result's tag (session.go:274-278); none has, for a
\* portal gets its result from Run's results only (session.go:261), and Run
\* returns none.
HandleExecute(c) ==
    /\ Dispatching(c, "Execute")
    /\ LET portal == portals[c][msg[c].portal]
           stmt == getPreparedStmt(pendingStmts[c], stmts[c], portal.srcPreparedStatement)
       IN IF portal = NoPortal
          THEN /\ Respond(c, <<ErrorResponse("ERROR", "XX000", "portal not exist")>>, FALSE)
               /\ UNCHANGED run
          ELSE IF stmt = NoStmt
          THEN /\ Respond(c, <<ErrorResponse("ERROR", "XX000", "statement not exist")>>, FALSE)
               /\ UNCHANGED run
          ELSE IF hasNoResult(portal)
          THEN /\ run' = [run EXCEPT ![c] = [NoRun EXCEPT !.stmts = ParseSQL(stmt.rawSQL).stmts]]
               /\ pc' = [pc EXCEPT ![c] = "run"]
               /\ UNCHANGED <<wire, connClosed, transaction, produced>>
          ELSE /\ Respond(c, <<CommandComplete(portal.result.tag)>>, FALSE)
               /\ UNCHANGED run
    /\ UNCHANGED <<stmts, pendingStmts, portals, msg, ts, callCtx, nread, txnWire, txnStmts,
                   flushed, readAt>>
    /\ restUnchanged

\* case *pgproto3.Query (session.go:172) up to the call of Run: the text is
\* parsed (session.query, session.go:197); a parse error makes the handler
\* queue ParseComplete; the unnamed statement is deleted
HandleQuery(c) ==
    /\ Dispatching(c, "Query")
    /\ LET tree == ParseSQL(msg[c].sql)
       IN IF tree.err
          THEN /\ stmts' = [stmts EXCEPT ![c] = deleteUnnamed(@)]
               /\ Respond(c, <<ParseComplete>>, TRUE)
               /\ UNCHANGED run
          ELSE /\ run' = [run EXCEPT ![c] = [NoRun EXCEPT !.stmts = tree.stmts]]
               /\ pc' = [pc EXCEPT ![c] = "run"]
               /\ UNCHANGED <<wire, connClosed, transaction, stmts, produced>>
    /\ UNCHANGED <<pendingStmts, portals, msg, ts, callCtx, nread, txnWire, txnStmts, flushed, readAt>>
    /\ restUnchanged

Running(c) == ~panicked /\ pc[c] = "run" /\ ~run[c].err /\ run[c].stmts # <<>>

\* query.sess as parseQuery and createQuery make it (query.go:60-76) and as
\* session.query and session.execute leave it (session.go:202, :250): nil
QuerySess == "nil"

\* faulty variant that takes any query's session for a *session.
IsSessionAlways(sess) == TRUE

\* the type assertion q.sess.(*session) (query.go:172)
IsSession(sess) == sess = "session"

\* query.Run on a PrepareStmt (query.go:171-177): the statement is stored
\* with session.storePreparedStatement (session.go:282) when the query's
\* session is a *session, and not at all otherwise; nothing is answered
RunPrepare(c) ==
    /\ Running(c)
    /\ Head(run[c].stmts) = "PrepareStmt"
    /\ pendingStmts' = IF IsSession(QuerySess)
                       THEN [pendingStmts EXCEPT ![c][PrepareName] =
                                [rawSQL |-> msg[c].sql, query |-> "SelectStmt"]]
                       ELSE pendingStmts
    /\ run' = [run EXCEPT ![c].stmts = Tail(@)]
    /\ UNCHANGED <<pc, wire, connClosed, transaction, stmts, portals, msg, ts, callCtx,
                   nread, produced, txnWire, txnStmts, flushed, readAt>>
    /\ restUnchanged

\* faulty variant that hands over the session's context.
RunContextOfSession == "session.Ctx"

\* the context query.Run hands to the Queryer and the Execer (query.go:157)
RunContext == "context.Background"

\* query.Run calls the Queryer or the Execer for the next statement
\* (query.go:178); the call is in flight until it returns
RunCall(c) ==
    /\ Running(c)
    /\ Head(run[c].stmts) # "PrepareStmt"
    /\ callCtx' = [callCtx EXCEPT ![c] = RunContext]
    /\ pc' = [pc EXCEPT ![c] = "call"]
    /\ UNCHANGED <<wire, connClosed, transaction, stmts, pendingStmts, portals, msg, ts,
                   run, nread, produced, txnWire, txnStmts, flushed, readAt>>
    /\ restUnchanged

\* what a step that panics in one session's query loop leaves alone
panicUnchanged ==
    UNCHANGED <<authenticator, allSessions, passed, args, salt, Secret, CancelFunc,
                ctxDone, pid, loopOk, reply, req, loaded, limit, script, stream, frame,
                sessArgs, startupMsg, fired, served>>

\* The call returns: an error (ok is FALSE), or the Queryer's rows or the
\* Execer's result r.  Whichever it is, q.Query, q.Exec or query.Run makes a
\* message of it and hands that to q.transport.Write (query.go:185, :194,
\* :205, :241, :251, :253).  q.transport is nil, as parseQuery and
\* createQuery make it (query.go:62-77) and session.query and
\* session.execute leave it (withTransport, query.go:79, has no caller), so
\* Write dereferences a nil Transport (transport.go:92): the goroutine
\* panics, the message is lost and no row is read.
CallReturn(c, ok, r) ==
    /\ ~panicked
    /\ pc[c] = "call"
    /\ LET node == Head(run[c].stmts)
       IN run' = [run EXCEPT ![c].err = ~ok,
                             ![c].res = IF ok /\ node \notin QueryNodes THEN r ELSE NoRes,
                             ![c].handed = Handed(node, ok, r)]
    /\ panicked' = TRUE
    /\ UNCHANGED <<pc, wire, connClosed, transaction, stmts, pendingStmts, portals, msg, ts,
                   callCtx, nread, produced, txnWire, txnStmts, flushed, readAt>>
    /\ panicUnchanged

\* Run has returned to session.query without an error, which it does when
\* it made no call: there are no results to write (session.go:206), query
\* returns nil and the unnamed statement is deleted (session.go:178)
QueryFinish(c) ==
    /\ ~panicked
    /\ pc[c] = "run"
    /\ msg[c].t = "Query"
    /\ run[c].stmts = <<>>
    /\ Respond(c, <<>>, FALSE)
    /\ stmts' = [stmts EXCEPT ![c] = deleteUnnamed(@)]
    /\ run' = [run EXCEPT ![c] = NoRun]
    /\ UNCHANGED <<pendingStmts, portals, msg, ts, callCtx, nread, txnWire, txnStmts, flushed, readAt>>
    /\ restUnchanged

\* Run has returned to session.execute without an error (session.go:256),
\* which it does when it made no call.  It returned no result either, and
\* portal.result = results[0] (session.go:261) indexes an empty slice: the
\* goroutine panics.
ExecuteFinish(c) ==
    /\ ~panicked
    /\ pc[c] = "run"
    /\ msg[c].t = "Execute"
    /\ run[c].stmts = <<>>
    /\ panicked' = TRUE
    /\ UNCHANGED <<pc, wire, connClosed, transaction, stmts, pendingStmts, portals, msg, ts,
                   run, callCtx, nread, produced, txnWire, txnStmts, flushed, readAt>>
    /\ panicUnchanged

\* ----------------------------------------------- one session's query loop
\* the client messages of the query-loop specification
LoopMsgs ==
    {Parse(n, q, TRUE) : n \in {"", "s1"}, q \in {"SELECT 1", "SELECT 1; INSERT", "garbage"}}
    \cup {Parse("s1", "INSERT", FALSE), Parse("s1", "PREPARE p AS SELECT 1", TRUE)}
    \cup {Bind(n, "") : n \in {"", "s1"}}
    \cup {Describe(o, "s1") : o \in {"S", "P", "X"}}
    \cup {Execute("", n) : n \in {0, 1}}
    \cup {Query(q) : q \in {"SELECT 1", "garbage", "PREPARE p AS SELECT 1"}}
    \cup {Sync, Terminate, Flush, EOF}

\* what every specification starts with, but for the query being run
InitNoCall ==
    /\ allSessions = [p \in Int32 |-> NoSess]
    /\ panicked = FALSE
    /\ salt = [c \in Conns |-> 0]
    /\ ctxDone = [c \in Conns |-> FALSE]
    /\ loopOk = [c \in Conns |-> FALSE]
    /\ reply = [c \in Conns |-> NoMsg]
    /\ startupMsg = [c \in Conns |-> NoMsg]
    /\ frame = [c \in Conns |-> <<>>]
    /\ sessArgs = [c \in Conns |-> <<>>]
    /\ req = [c \in Conns |-> [pid |-> 0, secret |-> 0]]
    /\ loaded = [c \in Conns |-> NoSess]
    /\ transaction = [c \in Conns |-> NoTxn]
    /\ stmts = [c \in Conns |-> EmptyStmts]
    /\ pendingStmts = [c \in Conns |-> EmptyStmts]
    /\ portals = [c \in Conns |-> EmptyPortals]
    /\ msg = [c \in Conns |-> NoMsg]
    /\ ts = [c \in Conns |-> NoStatus]
    /\ nread = [c \in Conns |-> 0]
    /\ produced = [c \in Conns |-> <<>>]
    /\ txnWire = [c \in Conns |-> 0]
    /\ txnStmts = [c \in Conns |-> EmptyStmts]
    /\ flushed = [c \in Conns |-> NoFlush]
    /\ readAt = [c \in Conns |-> 0]
    /\ fired = {}
    /\ served = {}

InitShared ==
    /\ InitNoCall
    /\ run = [c \in Conns |-> NoRun]
    /\ callCtx = [c \in Conns |-> "none"]

\* One session after a trust handshake that drew pid 0 and secret 0: Serve has
\* made its maps and its transport (session.go:123).  The other connections
\* are never accepted.
InitLoop ==
    /\ InitShared
    /\ authenticator = "trust"
    /\ pc = [c \in Conns |-> IF c = 1 THEN "next" ELSE "off"]
    /\ wire = [c \in Conns |->
                 IF c = 1
                 THEN <<AuthenticationOK, ParameterStatus("client_encoding", "utf8"),
                        BackendKeyData(0, 0)>>
                 ELSE <<>>]
    /\ connClosed = [c \in Conns |-> FALSE]
    /\ passed = [c \in Conns |-> c = 1]
    /\ args = [c \in Conns |-> IF c = 1 THEN {"user"} ELSE {}]
    /\ Secret = [c \in Conns |-> 0]
    /\ CancelFunc = [c \in Conns |-> IF c = 1 THEN "set" ELSE "nil"]
    /\ pid = [c \in Conns |-> 0]
    /\ limit = MaxMsgs
    /\ script = <<>>
    /\ stream = [c \in Conns |-> <<>>]

NextLoop ==
    \E c \in Conns :
        \/ WriteReadyForQuery(c)
        \/ \E m \in LoopMsgs : NextFrontendMessage(c, m)
        \/ HandleTransactionState(c)
        \/ HandleTerminate(c)
        \/ HandleOther(c)
        \/ HandleParse(c)
        \/ HandleBind(c)
        \/ HandleDescribe(c)
        \/ HandleExecute(c)
        \/ HandleQuery(c)
        \/ RunPrepare(c)
        \/ RunCall(c)
        \/ \E ok \in BOOLEAN, r \in Results : CallReturn(c, ok, r)
        \/ QueryFinish(c)
        \/ ExecuteFinish(c)

SpecLoop == InitLoop /\ [][NextLoop]_vars

\* ------------------------------------------------- the session's arguments
\* the keys the holder of a session sets and deletes
ArgKeys == {"user", "database", "application_name"}

\* s.Args is the map startUp makes of the startup arguments (session.go:72);
\* until then it is nil, and it stays nil in a session that serves a
\* CancelRequest
ArgsMade(c) == passed[c]

\* what a call of Set or Del leaves alone
argsUnchanged ==
    /\ UNCHANGED <<authenticator, allSessions, pc, wire, connClosed, passed, salt, Secret,
                   CancelFunc, ctxDone, pid, loopOk, reply, req, loaded, limit, script,
                   stream, frame, sessArgs, startupMsg, fired, served>>
    /\ UNCHANGED loopVars

\* session.Set (session.go:373): s.Args[k] = v, which panics on a nil map
Set(c, k) ==
    /\ ~panicked
    /\ pc[c] # "off"
    /\ IF ArgsMade(c)
       THEN /\ args' = [args EXCEPT ![c] = @ \cup {k}]
            /\ UNCHANGED panicked
       ELSE /\ panicked' = TRUE
            /\ UNCHANGED args
    /\ argsUnchanged

\* session.Del (session.go:375): delete(s.Args, k), which does nothing on a
\* nil map
Del(c, k) ==
    /\ ~panicked
    /\ pc[c] # "off"
    /\ args' = [args EXCEPT ![c] = @ \ {k}]
    /\ UNCHANGED panicked
    /\ argsUnchanged

\* A session in the hands of code that calls its Set and Del, before its
\* startUp has made the map and after it.  The server hands the session to
\* no one: the query a Queryer or an Execer is called for carries no session
\* (QuerySess), and Serve keeps its session to itself (srv.go), so Set and
\* Del are steps of no specification of the server.
InitArgs ==
    /\ InitShared
    /\ authenticator = "trust"
    /\ wire = [c \in Conns |-> <<>>]
    /\ connClosed = [c \in Conns |-> FALSE]
    /\ \E made \in BOOLEAN :
          /\ pc = [c \in Conns |-> IF c # 1 THEN "off" ELSE IF made THEN "auth" ELSE "init"]
          /\ passed = [c \in Conns |-> c = 1 /\ made]
          /\ args = [c \in Conns |-> IF c = 1 /\ made THEN {"user"} ELSE {}]
    /\ Secret = [c \in Conns |-> 0]
    /\ CancelFunc = [c \in Conns |-> "nil"]
    /\ pid = [c \in Conns |-> 0]
    /\ limit = MaxMsgs
    /\ script = <<>>
    /\ stream = [c \in Conns |-> <<>>]

NextArgs ==
    \E c \in Conns, k \in ArgKeys :
        \/ Set(c, k)
        \/ Del(c, k)

SpecArgs == InitArgs /\ [][NextArgs]_vars

\* ------------------------------------------ one session, a scripted client
\* The conversations of a client that prepares a statement, binds it,
\* describes it, executes it and ends the transaction, each step with its
\* variants, and then sends a few messages more before it hangs up.
ScriptTails == {<<>>, <<Query("SELECT 1")>>, <<Query("PREPARE p AS SELECT 1")>>,
                <<Bind("s1", "")>>, <<Terminate>>,
                <<Query("PREPARE p AS SELECT 1"), Bind("", "")>>,
                <<Query("garbage"), Describe("S", "")>>,
                <<Query("garbage"), Parse("", "SELECT 1", TRUE), Bind("", "")>>,
                <<Execute("", 0), Sync>>}
\* the Execute of the conversation: none, or one with a row limit
ScriptExecutes == {<<>>, <<Execute("", 0)>>, <<Execute("", 1)>>}
Scripts ==
    {<<Parse(n, q, TRUE), Bind(b, ""), Describe(o, n)>> \o ex \o <<Sync>> \o tail :
        n \in {"s1", ""}, q \in {"SELECT 1", "PREPARE p AS SELECT 1"}, b \in {"s1", ""},
        o \in {"S", "P"}, ex \in ScriptExecutes, tail \in ScriptTails}

\* the message the scripted client's next read returns: the script's next
\* one, or EOF when the script is over
ScriptMessage(c) == IF nread[c] < Len(script) THEN script[nread[c] + 1] ELSE EOF

InitScript ==
    /\ InitShared
    /\ authenticator = "trust"
    /\ pc = [c \in Conns |-> IF c = 1 THEN "next" ELSE "off"]
    /\ wire = [c \in Conns |->
                 IF c = 1
                 THEN <<AuthenticationOK, ParameterStatus("client_encoding", "utf8"),
                        BackendKeyData(0, 0)>>
                 ELSE <<>>]
    /\ connClosed = [c \in Conns |-> FALSE]
    /\ passed = [c \in Conns |-> c = 1]
    /\ args = [c \in Conns |-> IF c = 1 THEN {"user"} ELSE {}]
    /\ Secret = [c \in Conns |-> 0]
    /\ CancelFunc = [c \in Conns |-> IF c = 1 THEN "set" ELSE "nil"]
    /\ pid = [c \in Conns |-> 0]
    /\ script \in Scripts
    /\ stream = [c \in Conns |-> <<>>]
    /\ limit = Len(script) + 1

NextScript ==
    \E c \in Conns :
        \/ WriteReadyForQuery(c)
        \/ NextFrontendMessage(c, ScriptMessage(c))
        \/ HandleTransactionState(c)
        \/ HandleTerminate(c)
        \/ HandleOther(c)
        \/ HandleParse(c)
        \/ HandleBind(c)
        \/ HandleDescribe(c)
        \/ HandleExecute(c)
        \/ HandleQuery(c)
        \/ RunPrepare(c)
        \/ RunCall(c)
        \/ \E ok \in BOOLEAN, r \in Results : CallReturn(c, ok, r)
        \/ QueryFinish(c)
        \/ ExecuteFinish(c)

SpecScript == InitScript /\ [][NextScript]_vars

\* --------------------------------------- one session, one simple Query
\* The conversations of a client that sends one simple Query, of one
\* statement or of two, and hangs up.
QueryScripts ==
    {<<Query(t.sql)>> : t \in CommandTexts}
    \cup {<<Query(q)>> : q \in {"INSERT", "SELECT 1", "SELECT 1; INSERT",
                                "PREPARE p AS SELECT 1"}}

InitQuery ==
    /\ InitShared
    /\ authenticator = "trust"
    /\ pc = [c \in Conns |-> IF c = 1 THEN "next" ELSE "off"]
    /\ wire = [c \in Conns |->
                 IF c = 1
                 THEN <<AuthenticationOK, ParameterStatus("client_encoding", "utf8"),
                        BackendKeyData(0, 0)>>
                 ELSE <<>>]
    /\ connClosed = [c \in Conns |-> FALSE]
    /\ passed = [c \in Conns |-> c = 1]
    /\ args = [c \in Conns |-> IF c = 1 THEN {"user"} ELSE {}]
    /\ Secret = [c \in Conns |-> 0]
    /\ CancelFunc = [c \in Conns |-> IF c = 1 THEN "set" ELSE "nil"]
    /\ pid = [c \in Conns |-> 0]
    /\ script \in QueryScripts
    /\ stream = [c \in Conns |-> <<>>]
    /\ limit = Len(script) + 1

NextQuery ==
    \E c \in Conns :
        \/ WriteReadyForQuery(c)
        \/ NextFrontendMessage(c, ScriptMessage(c))
        \/ HandleTransactionState(c)
        \/ HandleQuery(c)
        \/ RunPrepare(c)
        \/ RunCall(c)
        \/ \E ok \in BOOLEAN, r \in Results : CallReturn(c, ok, r)
        \/ QueryFinish(c)

SpecQuery == InitQuery /\ [][NextQuery]_vars

\* ------------------------------------------------- the tag of a command
\* the nodes query.Run hands to the Execer: those the parser makes of the
\* command texts and of INSERT, and a VariableSetStmt of an unlisted Kind
ExecNodes == {t.node : t \in CommandTexts} \cup {"InsertStmt", UnlistedSet}

\* query.Exec has called the Execer for a node (query.go:239), under the
\* context query.Run made; the call's return makes the tag.
InitTag ==
    /\ InitNoCall
    /\ authenticator = "trust"
    /\ pc = [c \in Conns |-> IF c = 1 THEN "call" ELSE "off"]
    /\ wire = [c \in Conns |->
                 IF c = 1
                 THEN <<AuthenticationOK, ParameterStatus("client_encoding", "utf8"),
                        BackendKeyData(0, 0), ReadyForQuery>>
                 ELSE <<>>]
    /\ connClosed = [c \in Conns |-> FALSE]
    /\ passed = [c \in Conns |-> c = 1]
    /\ args = [c \in Conns |-> IF c = 1 THEN {"user"} ELSE {}]
    /\ Secret = [c \in Conns |-> 0]
    /\ CancelFunc = [c \in Conns |-> IF c = 1 THEN "set" ELSE "nil"]
    /\ pid = [c \in Conns |-> 0]
    /\ script = <<>>
    /\ stream = [c \in Conns |-> <<>>]
    /\ limit = 1
    /\ \E node \in ExecNodes :
          run = [c \in Conns |-> IF c = 1 THEN [NoRun EXCEPT !.stmts = <<node>>] ELSE NoRun]
    /\ callCtx = [c \in Conns |-> IF c = 1 THEN RunContext ELSE "none"]

NextTag ==
    \E c \in Conns, ok \in BOOLEAN, r \in Results : CallReturn(c, ok, r)

SpecTag == InitTag /\ [][NextTag]_vars

\* ------------------------------------------------------------ the handshake
\* the untyped messages a client opens a connection with
StartupMessage(version, keys) == [t |-> "StartupMessage", version |-> version, keys |-> keys]
SSLRequest == [t |-> "SSLRequest"]
CancelRequest(p, k) == [t |-> "CancelRequest", pid |-> p, secret |-> k]

\* Message.StartupVersion (unnamed/part_012:33): "major.minor"
StartupVersion(m) ==
    CASE m.t = "SSLRequest" -> "1234.5679"
      [] m.t = "CancelRequest" -> "1234.5678"
      [] OTHER -> m.version

\* Message.IsCancel, Message.IsTLSRequest (unnamed/part_012:115, :86)
IsCancel(m) == StartupVersion(m) = "1234.5678"
IsTLSRequest(m) == StartupVersion(m) = "1234.5679"

\* what a step of one connection's startUp leaves alone
loopUnchanged == UNCHANGED loopVars

\* the (pid, secret) of a message that is not a CancelRequest is not read
KeyOf(m) == IF m.t = "CancelRequest" THEN [pid |-> m.pid, secret |-> m.secret]
            ELSE [pid |-> 0, secret |-> 0]

\* faulty variant that lets every version pass.
VersionSupportedAny(v) == TRUE

\* the version test of Handshake.Init (protocol/handshake.go:72)
VersionSupported(v) == v = "3.0"

\* Handshake.Init from the message m on (protocol/handshake.go:50), and
\* startUp up to the Load of a CancelRequest or to the authentication
\* (session.go:50-75)
StartupChecked(c, m) ==
    IF ~VersionSupported(StartupVersion(m))
    THEN /\ ServeFails(c)
         /\ UNCHANGED <<passed, args, req>>
    ELSE /\ passed' = [passed EXCEPT ![c] = TRUE]
         /\ args' = [args EXCEPT ![c] = IF m.t = "StartupMessage" THEN m.keys ELSE {}]
         /\ pc' = [pc EXCEPT ![c] = "auth"]
         /\ UNCHANGED <<connClosed, req>>

\* Handshake.Init reads the first message (protocol/handshake.go:38)
HandshakeInit(c, m) ==
    /\ ~panicked
    /\ pc[c] = "init"
    /\ IF m = EOF
       THEN /\ ServeFails(c)
            /\ UNCHANGED <<wire, passed, args, req>>
       ELSE IF IsCancel(m)
       THEN /\ req' = [req EXCEPT ![c] = KeyOf(m)]
            /\ pc' = [pc EXCEPT ![c] = "cancel"]
            /\ UNCHANGED <<wire, connClosed, passed, args>>
       ELSE IF IsTLSRequest(m)
       THEN /\ wire' = [wire EXCEPT ![c] = Append(@, TLSResponse(FALSE))]
            /\ pc' = [pc EXCEPT ![c] = "tls"]
            /\ UNCHANGED <<connClosed, passed, args, req>>
       ELSE /\ StartupChecked(c, m)
            /\ UNCHANGED wire
    /\ UNCHANGED <<authenticator, allSessions, panicked, salt, Secret, CancelFunc, ctxDone,
                   pid, loopOk, loaded, limit, script, stream, frame, sessArgs, fired, served, reply>>
    /\ startupMsg' = [startupMsg EXCEPT ![c] = m]
    /\ loopUnchanged

\* Handshake.Init reads the message after the refused SSLRequest
\* (protocol/handshake.go:62): it is not looked at for a CancelRequest
HandshakeAfterTLS(c, m) ==
    /\ ~panicked
    /\ pc[c] = "tls"
    /\ IF m = EOF
       THEN /\ ServeFails(c)
            /\ UNCHANGED <<passed, args, req>>
       ELSE StartupChecked(c, m)
    /\ UNCHANGED <<authenticator, allSessions, panicked, wire, salt, Secret, CancelFunc,
                   ctxDone, pid, loopOk, loaded, limit, script, stream, frame, sessArgs, fired, served, reply>>
    /\ startupMsg' = [startupMsg EXCEPT ![c] = m]
    /\ loopUnchanged

\* ------------------------------------------------------------ authentication
NUL == "NUL"
\* the password of the constant password providers, and the user it is for
ThePassword == <<"p", "w">>
\* the frontend's reply to a password request: a typed message
PasswordMessage(body) == [t |-> "PasswordMessage", tag |-> "p", body |-> body]
TypedMessage(tag, body) == [t |-> "Typed", tag |-> tag, body |-> body]

\* md5 of a byte string, as lower hex: one symbol per preimage
MD5Hex(x) == "md5hex(" \o x \o ")"

\* hashWithSalt (unnamed/part_008:204): "md5" then the hex of
\* md5(hex(stored hash) followed by the salt); the stored hash is
\* md5(password followed by user) (md5ConstantPasswordProvider.GetPassword,
\* unnamed/part_008:80)
TheUser == "postgres"
StoredHash == MD5Hex("pw" \o TheUser)
hashWithSalt(hash, s) == "md5" \o MD5Hex(hash \o ToString(s))

\* The body of the client's reply: for the cleartext exchange the bytes of a
\* password and a terminator; for the MD5 exchange a hash, held as one symbol,
\* and a terminator.  extractPassword (unnamed/part_008:197) takes
\* m[5 : len(m)-1]: the body without its last byte.
extractPassword(m) == SubSeq(m.body, 1, Len(m.body) - 1)

\* the value the reply is compared with
\* (clearTextAuthenticator.authenticate, md5Authenticator.authenticate)
Expected(c) ==
    IF authenticator = "plain" THEN ThePassword
    ELSE <<hashWithSalt(StoredHash, salt[c])>>

\* bytes.Equal (unnamed/part_008:123, :173).  PasswordAcceptedAlways is the
\* faulty variant that accepts every reply.
PasswordAcceptedAlways(c, m) == TRUE
PasswordAccepted(c, m) == extractPassword(m) = Expected(c)

SaltMax == 1
Salts == 0..SaltMax

\* authenticator.authenticate up to its read (unnamed/part_008:29, :94, :140)
Authenticate(c, s) ==
    /\ ~panicked
    /\ pc[c] = "auth"
    /\ IF authenticator = "trust"
       THEN /\ wire' = [wire EXCEPT ![c] = Append(@, AuthenticationOK)]
            /\ pc' = [pc EXCEPT ![c] = "keys"]
            /\ UNCHANGED salt
       ELSE IF authenticator = "plain"
       THEN /\ wire' = [wire EXCEPT ![c] = Append(@, AuthenticationCleartextPassword)]
            /\ pc' = [pc EXCEPT ![c] = "password"]
            /\ UNCHANGED salt
       ELSE /\ salt' = [salt EXCEPT ![c] = s]
            /\ wire' = [wire EXCEPT ![c] = Append(@, AuthenticationMD5Password(s))]
            /\ pc' = [pc EXCEPT ![c] = "password"]
    /\ UNCHANGED <<authenticator, allSessions, panicked, connClosed, passed, args, Secret,
                   CancelFunc, ctxDone, pid, loopOk, req, loaded, limit, script, stream, frame, sessArgs, startupMsg, fired, served, reply>>
    /\ loopUnchanged

FatalError(what) == ErrorResponse("FATAL", "XX000", what)

\* authenticate from its read on (unnamed/part_008:107-130, :155-180): m is
\* the typed message read.  args["user"].(string) panics when the startup
\* message had no user; the slice of extractPassword panics on an empty body.
PasswordRead(c, m) ==
    /\ ~panicked
    /\ pc[c] = "password"
    /\ reply' = [reply EXCEPT ![c] = m]
    /\ IF m = EOF
       THEN /\ ServeFails(c)
            /\ UNCHANGED <<wire, panicked>>
       ELSE IF m.tag # "p"
       THEN /\ wire' = [wire EXCEPT ![c] = Append(@, FatalError("expected password response"))]
            /\ ServeFails(c)
            /\ UNCHANGED panicked
       ELSE IF "user" \notin args[c] \/ Len(m.body) = 0
       THEN /\ panicked' = TRUE
            /\ UNCHANGED <<wire, pc, connClosed>>
       ELSE IF ~PasswordAccepted(c, m)
       THEN /\ wire' = [wire EXCEPT ![c] = Append(@, FatalError("password does not match"))]
            /\ ServeFails(c)
            /\ UNCHANGED panicked
       ELSE /\ wire' = [wire EXCEPT ![c] = Append(@, AuthenticationOK)]
            /\ pc' = [pc EXCEPT ![c] = "keys"]
            /\ UNCHANGED <<panicked, connClosed>>
    /\ UNCHANGED <<authenticator, allSessions, passed, args, salt, Secret, CancelFunc,
                   ctxDone, pid, loopOk, req, loaded, limit, script, stream, frame, sessArgs, startupMsg, fired, served>>
    /\ loopUnchanged

\* ------------------------------------------------- the cancellation registry
\* sync.Map.Load: whether a session is stored under p
Found(p) == allSessions[p] # NoSess

\* startUp from the ParameterStatus to the first Load (session.go:83-92): the
\* secret k and the pid p are the draws of rand.Int31()
GenerateKeys(c, k, p) ==
    /\ ~panicked
    /\ pc[c] = "keys"
    /\ wire' = [wire EXCEPT ![c] = Append(@, ParameterStatus("client_encoding", "utf8"))]
    /\ Secret' = [Secret EXCEPT ![c] = k]
    /\ pid' = [pid EXCEPT ![c] = p]
    /\ loopOk' = [loopOk EXCEPT ![c] = Found(p)]
    /\ pc' = [pc EXCEPT ![c] = "pidloop"]
    /\ UNCHANGED <<authenticator, allSessions, panicked, connClosed, passed, args, salt,
                   CancelFunc, ctxDone, req, loaded, limit, script, stream, frame, sessArgs, startupMsg, fired, served, reply>>
    /\ loopUnchanged

\* one turn of the loop (session.go:92-94): the condition held for the last
\* Load; the body loads pid again, then the post statement increments pid
PidLoop(c) ==
    /\ ~panicked
    /\ pc[c] = "pidloop"
    /\ loopOk[c]
    /\ loopOk' = [loopOk EXCEPT ![c] = Found(pid[c])]
    /\ pid' = [pid EXCEPT ![c] = IncPid(@)]
    /\ UNCHANGED <<authenticator, allSessions, panicked, pc, wire, connClosed, passed, args,
                   salt, Secret, CancelFunc, ctxDone, req, loaded, limit, script, stream, frame, sessArgs, startupMsg, fired, served, reply>>
    /\ loopUnchanged

\* the loop is left and the session stored (session.go:96)
Store(c) ==
    /\ ~panicked
    /\ pc[c] = "pidloop"
    /\ ~loopOk[c]
    /\ allSessions' = [allSessions EXCEPT ![pid[c]] = c]
    /\ pc' = [pc EXCEPT ![c] = "stored"]
    /\ UNCHANGED <<authenticator, panicked, wire, connClosed, passed, args, salt, Secret,
                   CancelFunc, ctxDone, pid, loopOk, req, loaded, limit, script, stream, frame, sessArgs, startupMsg, fired, served, reply>>
    /\ loopUnchanged

\* the session's context and cancel function are made and BackendKeyData is
\* written (session.go:101-111)
SetCancel(c) ==
    /\ ~panicked
    /\ pc[c] = "stored"
    /\ CancelFunc' = [CancelFunc EXCEPT ![c] = "set"]
    /\ wire' = [wire EXCEPT ![c] = Append(@, BackendKeyData(pid[c], Secret[c]))]
    /\ pc' = [pc EXCEPT ![c] = "registered"]
    /\ UNCHANGED <<authenticator, allSessions, panicked, connClosed, passed, args, salt,
                   Secret, ctxDone, pid, loopOk, req, loaded, limit, script, stream, frame, sessArgs, startupMsg, fired, served, reply>>
    /\ loopUnchanged

\* the deferred allSessions.Delete(pid) (session.go:97), which runs when
\* startUp returns
DeferredDelete(reg, p) == [reg EXCEPT ![p] = NoSess]

\* startUp returns nil (session.go:113) and Serve makes the maps and the
\* transport (session.go:123)
StartUpReturns(c) ==
    /\ ~panicked
    /\ pc[c] = "registered"
    /\ allSessions' = DeferredDelete(allSessions, pid[c])
    /\ pc' = [pc EXCEPT ![c] = "next"]
    /\ UNCHANGED <<authenticator, panicked, wire, connClosed, passed, args, salt, Secret,
                   CancelFunc, ctxDone, pid, loopOk, req, loaded, limit, script, stream, frame, sessArgs, startupMsg, fired, served, reply>>
    /\ loopUnchanged

\* a CancelRequest: CancelKeyData and the Load (session.go:56-61)
CancelLoad(c) ==
    /\ ~panicked
    /\ pc[c] = "cancel"
    /\ loaded' = [loaded EXCEPT ![c] = allSessions[req[c].pid]]
    /\ pc' = [pc EXCEPT ![c] = "cancelLoaded"]
    /\ UNCHANGED <<authenticator, allSessions, panicked, wire, connClosed, passed, args,
                   salt, Secret, CancelFunc, ctxDone, pid, loopOk, req, limit, script, stream, frame, sessArgs, startupMsg, fired, served, reply>>
    /\ loopUnchanged

\* the test of the loaded session (session.go:62-65).  CancelMatchesAnySecret
\* is the faulty variant that does not compare the secret.
CancelMatchesAnySecret(s, k) == s # NoSess
CancelMatches(s, k) == s # NoSess /\ Secret[s] = k

\* the session has handled a simple Query to its end and waits for its next
\* message, or is about to: it has no query in flight
Idle(s) == msg[s].t = "Query" /\ pc[s] \in {"next", "read"}

\* the rest of the CancelRequest (session.go:62-69): on a match the loaded
\* session's CancelFunc is called, which panics while it is nil; startUp then
\* returns nil, and Serve goes on to its query loop (session.go:118-126)
CancelFire(c) ==
    /\ ~panicked
    /\ pc[c] = "cancelLoaded"
    /\ LET s == loaded[c]
           match == CancelMatches(s, req[c].secret)
       IN /\ IF match /\ CancelFunc[s] = "nil"
             THEN /\ panicked' = TRUE
                  /\ UNCHANGED <<pc, connClosed, ctxDone, fired>>
             ELSE /\ ctxDone' = IF match THEN [ctxDone EXCEPT ![s] = TRUE] ELSE ctxDone
                  /\ fired' = IF match THEN fired \cup {[by |-> c, target |-> s]} ELSE fired
                  /\ pc' = [pc EXCEPT ![c] = "next"]
                  /\ UNCHANGED connClosed
                  /\ UNCHANGED panicked
          /\ served' = served \cup {[by |-> c, pid |-> req[c].pid, secret |-> req[c].secret,
                                     loaded |-> s, match |-> match,
                                     afterQuery |-> s # NoSess /\ Idle(s)]}
    /\ UNCHANGED <<authenticator, allSessions, wire, passed, args, salt, Secret, CancelFunc,
                   pid, loopOk, req, loaded, limit, script, stream, frame, sessArgs, startupMsg, reply>>
    /\ loopUnchanged

\* ---------------------------------------------------------- specifications
\* connections are numbered in the order of their first read
Accepted(c) == \A d \in Conns : d < c => pc[d] # "init"

InitStart ==
    /\ InitShared
    /\ wire = [c \in Conns |-> <<>>]
    /\ connClosed = [c \in Conns |-> FALSE]
    /\ passed = [c \in Conns |-> FALSE]
    /\ args = [c \in Conns |-> {}]
    /\ Secret = [c \in Conns |-> 0]
    /\ CancelFunc = [c \in Conns |-> "nil"]
    /\ pid = [c \in Conns |-> 0]
    /\ limit = MaxMsgs
    /\ script = <<>>
    /\ stream = [c \in Conns |-> <<>>]

\* Every connection is served by its own goroutine (srv.go); the server
\* trusts its clients.  A client opens with a StartupMessage or with a
\* CancelRequest, and hangs up at the session's first read in the query loop.
FirstMsgs ==
    {StartupMessage("3.0", {"user"})}
    \cup {CancelRequest(p, k) : p \in Int31, k \in Secrets}

Init ==
    /\ InitStart
    /\ authenticator = "trust"
    /\ pc = [c \in Conns |-> "init"]

Next ==
    \E c \in Conns :
        \/ \E m \in FirstMsgs : Accepted(c) /\ HandshakeInit(c, m)
        \/ Authenticate(c, 0)
        \/ \E k \in Secrets, p \in Int31 : GenerateKeys(c, k, p)
        \/ PidLoop(c)
        \/ Store(c)
        \/ SetCancel(c)
        \/ StartUpReturns(c)
        \/ CancelLoad(c)
        \/ CancelFire(c)
        \/ WriteReadyForQuery(c)
        \/ NextFrontendMessage(c, EOF)

Spec == Init /\ [][Next]_vars

\* ------------------------------------- a session and a CancelRequest for it
\* Connection 1 opens a session and sends it simple Queries; connection 2
\* sends a CancelRequest, whose goroutine may be scheduled at any point of
\* the session's life: its Load may find the session while startUp holds
\* the registry entry, and its call of the hook may come after the session
\* has handled a Query.
CancelQueries == {Query("SELECT 1"), Query("garbage"), Query("PREPARE p AS SELECT 1")}

\* messages read by the session's query loop
CancelReads == 2

\* what the client of a connection sends to the query loop
CancelMsgs(c) == IF c = 1 THEN CancelQueries \cup {EOF} ELSE {EOF}

InitCancel ==
    /\ InitShared
    /\ authenticator = "trust"
    /\ pc = [c \in Conns |-> IF c \in {1, 2} THEN "init" ELSE "off"]
    /\ wire = [c \in Conns |-> <<>>]
    /\ connClosed = [c \in Conns |-> FALSE]
    /\ passed = [c \in Conns |-> FALSE]
    /\ args = [c \in Conns |-> {}]
    /\ Secret = [c \in Conns |-> 0]
    /\ CancelFunc = [c \in Conns |-> "nil"]
    /\ pid = [c \in Conns |-> 0]
    /\ limit = CancelReads
    /\ script = <<>>
    /\ stream = [c \in Conns |-> <<>>]

NextCancel ==
    \E c \in Conns :
        \/ c = 1 /\ HandshakeInit(c, StartupMessage("3.0", {"user"}))
        \/ \E p \in Int31, k \in Secrets :
              c = 2 /\ Accepted(c) /\ HandshakeInit(c, CancelRequest(p, k))
        \/ Authenticate(c, 0)
        \/ \E k \in Secrets, p \in Int31 : GenerateKeys(c, k, p)
        \/ Store(c)
        \/ SetCancel(c)
        \/ StartUpReturns(c)
        \/ CancelLoad(c)
        \/ CancelFire(c)
        \/ WriteReadyForQuery(c)
        \/ \E m \in CancelMsgs(c) : NextFrontendMessage(c, m)
        \/ HandleTransactionState(c)
        \/ HandleQuery(c)
        \/ RunPrepare(c)
        \/ RunCall(c)
        \/ \E ok \in BOOLEAN, r \in Results : CallReturn(c, ok, r)
        \/ QueryFinish(c)

SpecCancel == InitCancel /\ [][NextCancel]_vars

\* One connection, under each of the three authenticators, opening with any
\* first message and answering a password request with any reply.
AuthFirstMsgs ==
    {StartupMessage("3.0", {"user"}), StartupMessage("3.0", {}),
     StartupMessage("2.0", {"user"}), SSLRequest, CancelRequest(0, 0), EOF}

Replies ==
    {PasswordMessage(b) : b \in {ThePassword \o <<NUL>>, <<"p", "x", NUL>>, <<"p", NUL>>,
                                 ThePassword \o <<"w", NUL>>, ThePassword, <<NUL>>, <<>>}}
    \cup {PasswordMessage(<<hashWithSalt(StoredHash, s), NUL>>) : s \in Salts}
    \cup {PasswordMessage(<<hashWithSalt(MD5Hex("px" \o TheUser), s), NUL>>) :
             s \in Salts}
    \cup {TypedMessage("Q", <<"p", "w", NUL>>), EOF}

InitAuth ==
    /\ InitStart
    /\ authenticator \in {"trust", "plain", "md5"}
    /\ pc = [c \in Conns |-> IF c = 1 THEN "init" ELSE "off"]

NextAuth ==
    \E c \in Conns :
        \/ \E m \in AuthFirstMsgs : HandshakeInit(c, m)
        \/ \E m \in AuthFirstMsgs : HandshakeAfterTLS(c, m)
        \/ \E s \in Salts : Authenticate(c, s)
        \/ \E m \in Replies : PasswordRead(c, m)
        \/ \E k \in Secrets, p \in Int31 : GenerateKeys(c, k, p)
        \/ Store(c)
        \/ SetCancel(c)
        \/ StartUpReturns(c)
        \/ CancelLoad(c)
        \/ CancelFire(c)
        \/ WriteReadyForQuery(c)
        \/ NextFrontendMessage(c, EOF)

SpecAuth == InitAuth /\ [][NextAuth]_vars

\* ----------------------------------------------- the startup frame, in bytes
\* A raw message is a sequence of bytes (0..255).  The client's bytes are
\* drawn from a few values: NUL, the letters 'u' and 'b', and the bytes of the
\* version numbers and lengths below.
\* bytes of startup arguments a client sends after the version
MaxArgBytes == 4
\* NUL, 'u', 'b'
ArgBytes == {0, 117, 98}

\* binary.BigEndian.Uint16, binary.BigEndian.Uint32
Uint16(b) == b[1] * 256 + b[2]
Uint32(b) == ((b[1] * 256 + b[2]) * 256 + b[3]) * 256 + b[4]
\* binary.BigEndian.PutUint32 of a length below 256
LengthBytes(n) == <<0, 0, 0, n>>

\* the four version bytes of a StartupMessage 3.0 and 2.0, of a CancelRequest
\* (1234.5678) and of an SSLRequest (1234.5679)
Version3 == <<0, 3, 0, 0>>
Version2 == <<0, 2, 0, 0>>
VersionCancel == <<4, 210, 22, 46>>
VersionTLS == <<4, 210, 22, 47>>

\* Handshake.readRawMessage (protocol/handshake.go:99) on the unread bytes s.
\* io.ReadFull fails when the client hangs up before the bytes asked for;
\* res[4:] of a slice shorter than four bytes is out of range, which panics.
readRawMessage(s) ==
    IF Len(s) < 4
    THEN [kind |-> "err", m |-> <<>>, rest |-> <<>>]
    ELSE LET length == Uint32(SubSeq(s, 1, 4))
         IN IF length < 4
            THEN [kind |-> "panic", m |-> <<>>, rest |-> SubSeq(s, 5, Len(s))]
            ELSE IF Len(s) < length
            THEN [kind |-> "err", m |-> <<>>, rest |-> <<>>]
            ELSE [kind |-> "ok", m |-> SubSeq(s, 1, length),
                  rest |-> SubSeq(s, length + 1, Len(s))]

\* Message.Type (protocol/message.go:21): the first byte, 0 for no bytes
TypeByte(m) == IF Len(m) > 0 THEN m[1] ELSE 0

\* Message.StartupVersion (unnamed/part_012:33) on bytes: an error for a
\* typed message; m[4:6] and m[6:8] are out of range, which panics, for a
\* message shorter than eight bytes
StartupVersionOf(m) ==
    IF TypeByte(m) # 0 THEN [kind |-> "err", v |-> ""]
    ELSE IF Len(m) < 8 THEN [kind |-> "panic", v |-> ""]
    ELSE [kind |-> "ok",
          v |-> ToString(Uint16(SubSeq(m, 5, 6))) \o "." \o ToString(Uint16(SubSeq(m, 7, 8)))]

\* the index of the first NUL of buff, 0 for none (bytes.IndexByte)
IndexNUL(buff) ==
    IF \E i \in 1..Len(buff) : buff[i] = 0
    THEN CHOOSE i \in 1..Len(buff) : buff[i] = 0 /\ \A j \in 1..(i - 1) : buff[j] # 0
    ELSE 0

\* the first loop of Message.StartupArgs (unnamed/part_012:58-71): the
\* NUL-terminated strings of buff, in order
RECURSIVE Strings(_)
Strings(buff) ==
    IF buff = <<>> \/ IndexNUL(buff) = 0
    THEN <<>>
    ELSE <<SubSeq(buff, 1, IndexNUL(buff) - 1)>>
             \o Strings(SubSeq(buff, IndexNUL(buff) + 1, Len(buff)))

\* the second loop of Message.StartupArgs (unnamed/part_012:75-78): the
\* strings at even indexes are keys, the ones after them their values; a key
\* met again takes the later value
ArgsOf(strings) ==
    LET pairs == {j \in 1..Len(strings) : j % 2 = 1 /\ j + 1 <= Len(strings)}
        last(k) == CHOOSE j \in pairs :
                      strings[j] = k /\ \A i \in pairs : strings[i] = k => i <= j
    IN [k \in {strings[j] : j \in pairs} |-> strings[last(k) + 1]]

\* Message.StartupArgs (unnamed/part_012:48) of an untyped message of at
\* least eight bytes
StartupArgs(m) == ArgsOf(Strings(SubSeq(m, 9, Len(m))))

\* int32(binary.BigEndian.Uint32(b)): the four bytes as a two's complement
\* number, so that 255, 255, 255, 254 is -2
ToInt32(b) ==
    LET hi == IF b[1] >= 128 THEN b[1] - 256 ELSE b[1]
    IN ((hi * 256 + b[2]) * 256 + b[3]) * 256 + b[4]

\* Message.CancelKeyData (unnamed/part_012:121) of an untyped message of at
\* least sixteen bytes: an error, with -1 for both numbers, unless the
\* message is a CancelRequest
CancelKeyData(m) ==
    IF StartupVersionOf(m).v # "1234.5678"
    THEN [err |-> TRUE, pid |-> 0 - 1, secret |-> 0 - 1]
    ELSE [err |-> FALSE, pid |-> ToInt32(SubSeq(m, 9, 12)),
          secret |-> ToInt32(SubSeq(m, 13, 16))]

\* Handshake.readRawMessage is called by Handshake.Init
\* (protocol/handshake.go:45, :63) on the bytes the client has sent
FrameRead(c) ==
    /\ ~panicked
    /\ pc[c] \in {"init", "tls"}
    /\ LET r == readRawMessage(stream[c])
       IN /\ stream' = [stream EXCEPT ![c] = r.rest]
          /\ IF r.kind = "panic"
             THEN /\ panicked' = TRUE
                  /\ UNCHANGED <<pc, connClosed, frame>>
             ELSE IF r.kind = "err"
             THEN /\ ServeFails(c)
                  /\ UNCHANGED <<panicked, frame>>
             ELSE /\ frame' = [frame EXCEPT ![c] = r.m]
                  /\ pc' = [pc EXCEPT ![c] = "framed"]
                  /\ UNCHANGED <<panicked, connClosed>>
    /\ UNCHANGED <<authenticator, allSessions, wire, passed, args, salt, Secret, CancelFunc,
                   ctxDone, pid, loopOk, reply, req, loaded, limit, script, sessArgs,
                   startupMsg, fired, served>>
    /\ loopUnchanged

\* Handshake.Init from the message it read on (protocol/handshake.go:50-80)
\* and startUp up to the Load of a CancelRequest or to the authentication
\* (session.go:55-75), on the bytes of the message.  The first test made of
\* the message, IsCancel on the first pass and StartupVersion on the second,
\* panics when the message cannot hold a version; CancelKeyData panics
\* when a CancelRequest cannot hold its pid and secret.
FrameInit(c) ==
    /\ ~panicked
    /\ pc[c] = "framed"
    /\ LET m == frame[c]
           v == StartupVersionOf(m)
           first == wire[c] = <<>>
       IN IF v.kind = "panic" \/ (first /\ v.v = "1234.5678" /\ Len(m) < 16)
          THEN /\ panicked' = TRUE
               /\ UNCHANGED <<pc, connClosed, wire, passed, req, sessArgs>>
          ELSE IF first /\ v.v = "1234.5678"
          THEN LET k == CancelKeyData(m)
               IN IF k.err
                  THEN /\ ServeFails(c)
                       /\ UNCHANGED <<panicked, wire, passed, req, sessArgs>>
                  ELSE /\ req' = [req EXCEPT ![c] = [pid |-> k.pid, secret |-> k.secret]]
                       /\ pc' = [pc EXCEPT ![c] = "cancel"]
                       /\ UNCHANGED <<panicked, connClosed, wire, passed, sessArgs>>
          ELSE IF first /\ v.v = "1234.5679"
          THEN /\ wire' = [wire EXCEPT ![c] = Append(@, TLSResponse(FALSE))]
               /\ pc' = [pc EXCEPT ![c] = "tls"]
               /\ UNCHANGED <<panicked, connClosed, passed, req, sessArgs>>
          ELSE IF v.kind = "err" \/ ~VersionSupported(v.v)
          THEN /\ ServeFails(c)
               /\ UNCHANGED <<panicked, wire, passed, req, sessArgs>>
          ELSE /\ passed' = [passed EXCEPT ![c] = TRUE]
               /\ sessArgs' = [sessArgs EXCEPT ![c] = StartupArgs(m)]
               /\ pc' = [pc EXCEPT ![c] = "auth"]
               /\ UNCHANGED <<panicked, connClosed, wire, req>>
    /\ UNCHANGED <<authenticator, allSessions, args, salt, Secret, CancelFunc, ctxDone, pid,
                   loopOk, reply, loaded, limit, script, stream, frame, startupMsg, fired,
                   served>>
    /\ loopUnchanged

\* sequences over S of length n, and of length at most n
RECURSIVE SeqsOfLen(_, _)
SeqsOfLen(S, n) ==
    IF n = 0 THEN {<<>>}
    ELSE {Append(q, x) : q \in SeqsOfLen(S, n - 1), x \in S}
SeqsUpTo(S, n) == UNION {SeqsOfLen(S, k) : k \in 0..n}

\* what a client sends after the length: nothing, a part of a version, a
\* version and startup arguments, or a CancelRequest's version, pid and secret
\* (the pid 0, or -2 as BackendKeyData encodes it)
Bodies ==
    {SubSeq(Version3, 1, k) : k \in 0..3}
    \cup {v \o a : v \in {Version3, Version2}, a \in SeqsUpTo(ArgBytes, MaxArgBytes)}
    \cup {VersionCancel, VersionCancel \o LengthBytes(0),
          VersionCancel \o LengthBytes(0) \o LengthBytes(1),
          VersionCancel \o <<255, 255, 255, 254>> \o LengthBytes(1), VersionTLS}

\* the first message as the client frames it: the length counts itself and
\* the body, or is some other length up to one more
FirstFrames ==
    UNION {{LengthBytes(n) \o b : n \in {0, 3, 4, 7} \cup {Len(b) + 4, Len(b) + 5}} :
              b \in Bodies}

\* the bytes of one connection: nothing, a part of a length, a first message,
\* or an SSLRequest followed by a message without arguments
Streams ==
    {<<>>, <<0, 0>>}
    \cup {f \in FirstFrames : Uint32(SubSeq(f, 1, 4)) <= Len(f) + 1}
    \cup {LengthBytes(8) \o VersionTLS \o LengthBytes(Len(b) + 4) \o b :
             b \in {<<>>, SubSeq(Version3, 1, 2), Version3, Version2, VersionTLS,
                    VersionCancel \o LengthBytes(0) \o LengthBytes(1)}}

\* One connection whose goroutine is about to read its first message from
\* the bytes the client sent.
InitFrame ==
    /\ InitShared
    /\ authenticator = "trust"
    /\ pc = [c \in Conns |-> IF c = 1 THEN "init" ELSE "off"]
    /\ wire = [c \in Conns |-> <<>>]
    /\ connClosed = [c \in Conns |-> FALSE]
    /\ passed = [c \in Conns |-> FALSE]
    /\ args = [c \in Conns |-> {}]
    /\ Secret = [c \in Conns |-> 0]
    /\ CancelFunc = [c \in Conns |-> "nil"]
    /\ pid = [c \in Conns |-> 0]
    /\ limit = MaxMsgs
    /\ script = <<>>
    /\ \E s \in Streams : stream = [c \in Conns |-> IF c = 1 THEN s ELSE <<>>]

NextFrame ==
    \E c \in Conns :
        \/ FrameRead(c)
        \/ FrameInit(c)

SpecFrame == InitFrame /\ [][NextFrame]_vars

\* ------------------------------------------------------------------ claims
IsPrefix(a, b) == Len(a) <= Len(b) /\ SubSeq(b, 1, Len(a)) = a
Errors(ms) == {i \in 1..Len(ms) : IsError(ms[i])}

\* C1: while an extended-query transaction is active nothing the session
\* produces reaches the wire; the step that reads the next Query or Sync
\* appends the buffered messages to the wire, each once and in the order they
\* were buffered, and nothing else; the wire only ever grows at its end, so
\* whatever is written later (the next ReadyForQuery included) comes after them.
C1_BufferedThenFlushedInOrder ==
    [][\A c \in Conns :
          /\ IsPrefix(wire[c], wire'[c])
          /\ transaction[c].active => Len(wire[c]) = txnWire[c]
          /\ transaction[c].active /\ transaction'[c].active => wire'[c] = wire[c]
          /\ transaction[c].active /\ ~transaction'[c].active =>
                /\ msg'[c].t \in {"Query", "Sync"}
                /\ ~connClosed[c] => wire'[c] = wire[c] \o transaction[c].out]_vars

\* a transaction that buffered at least two different messages has been flushed
C1_Witness ==
    \E c \in Conns :
        /\ pc[c] = "state"
        /\ ts[c] = TransactionEnded
        /\ Len(flushed[c].out) >= 2
        /\ flushed[c].out[1] # flushed[c].out[2]
        /\ Len(wire[c]) = flushed[c].at + Len(flushed[c].out)

\* what a transaction's buffer holds of the messages written to it: those up
\* to and including the first ErrorResponse
RECURSIVE UpToFirstError(_)
UpToFirstError(ms) ==
    IF ms = <<>> THEN <<>>
    ELSE IF IsError(Head(ms)) THEN <<Head(ms)>>
    ELSE <<Head(ms)>> \o UpToFirstError(Tail(ms))

\* the message on the wire right after the last flushed transaction, if any,
\* is ReadyForQuery
ReadyForQueryFollowsFlush(c) ==
    LET end == flushed[c].at + Len(flushed[c].out)
    IN Len(wire[c]) > end => wire[c][end + 1] = ReadyForQuery

\* C2: once an ErrorResponse is in a transaction's buffer every later write to
\* it is dropped, so the buffer and the flushed output hold at most one
\* ErrorResponse and it is their last message; and the message that follows
\* the flushed ErrorResponse on the wire is ReadyForQuery, whichever message
\* ended the transaction.
C2_ErrorIsLastOfFlush ==
    \A c \in Conns :
        /\ transaction[c].active =>
              /\ transaction[c].out = UpToFirstError(produced[c])
              /\ Errors(transaction[c].out) \subseteq {Len(transaction[c].out)}
        /\ Errors(flushed[c].out) \subseteq {Len(flushed[c].out)}
        /\ (Errors(flushed[c].out) # {} /\ ~connClosed[c]) => ReadyForQueryFollowsFlush(c)

\* C3: the step that handles the transaction status leaves the three maps
\* alone unless a transaction ended; after a successful end every pending
\* statement is in the live map and pending is empty; after a failed end
\* pending is empty, nothing of it can be looked up, and the live map is what
\* it was when the transaction began; and no other step of the session puts a
\* statement into the live map.
C3_PromoteOnlyOnSuccess ==
    [][\A c \in Conns :
          /\ pc[c] = "state" /\ pc'[c] = "dispatch" =>
                CASE ts[c] = TransactionEnded ->
                        /\ \A n \in Names :
                              stmts'[c][n] = IF pendingStmts[c][n] # NoStmt
                                             THEN pendingStmts[c][n] ELSE stmts[c][n]
                        /\ pendingStmts'[c] = EmptyStmts
                  [] ts[c] = TransactionFailed ->
                        /\ stmts'[c] = txnStmts[c]
                        /\ pendingStmts'[c] = EmptyStmts
                        /\ \A n \in Names :
                              getPreparedStmt(pendingStmts'[c], stmts'[c], n) = txnStmts[c][n]
                  [] OTHER ->
                        /\ stmts'[c] = stmts[c]
                        /\ pendingStmts'[c] = pendingStmts[c]
                        /\ portals'[c] = portals[c]
          /\ \A n \in Names :
                stmts'[c][n] # stmts[c][n] /\ stmts'[c][n] # NoStmt =>
                   /\ pc[c] = "state"
                   /\ ts[c] = TransactionEnded
                   /\ stmts'[c][n] = pendingStmts[c][n]]_vars

\* a transaction that parsed s1 has ended successfully and s1 is live
C3_Witness ==
    \E c \in Conns :
        /\ pc[c] = "dispatch"
        /\ ts[c] = TransactionEnded
        /\ stmts[c]["s1"] # NoStmt
        /\ txnStmts[c]["s1"] = NoStmt

\* the CancelRequest of connection c is being answered in this step
AnswersCancel(c) == pc[c] = "cancelLoaded" /\ \E r \in served' \ served : r.by = c

\* C4: a session's token is cancelled only by the step that answers a
\* CancelRequest whose lookup of the pid returned that session (which is the
\* session stored under that pid) and whose secret equals that session's; the
\* step calls that session's hook and no other, and a request calls a hook at
\* most once; the step that answers a request whose lookup returned a session
\* with the request's secret does call that session's hook, and the process
\* goes on; a request whose pid is not found or whose secret differs calls
\* no hook and leaves the registry and every session's state as they were.
C4_CancelOnlyOnMatch ==
    [][/\ \A s \in Conns :
             ctxDone'[s] # ctxDone[s] =>
                \E c \in Conns :
                   /\ AnswersCancel(c)
                   /\ fired' = fired \cup {[by |-> c, target |-> s]}
                   /\ \A o \in Conns \ {s} : ctxDone'[o] = ctxDone[o]
       /\ \A f \in fired' \ fired :
             /\ fired' = fired \cup {f}
             /\ AnswersCancel(f.by)
             /\ \A g \in fired : g.by # f.by
             /\ loaded[f.by] = f.target
             /\ f.target # NoSess
             /\ pid[f.target] = req[f.by].pid
             /\ Secret[f.target] = req[f.by].secret
             /\ ctxDone'[f.target]
       /\ \A c \in Conns :
             (AnswersCancel(c) /\ CancelMatches(loaded[c], req[c].secret))
             => /\ ~panicked'
                /\ fired' = fired \cup {[by |-> c, target |-> loaded[c]]}
                /\ ctxDone'[loaded[c]]
       /\ \A c \in Conns :
             /\ AnswersCancel(c)
             /\ loaded[c] = NoSess \/ Secret[loaded[c]] # req[c].secret
             => /\ fired' = fired
                /\ UNCHANGED <<allSessions, ctxDone, Secret, CancelFunc, pid, wire, panicked,
                               connClosed, loopVars>>]_vars

\* C5: a session that has finished its handshake and is in its query loop is
\* found in the registry under its pid.
C5_RegisteredWhileServing ==
    \A c \in Conns : passed[c] /\ pc[c] \in {"next", "read"} => allSessions[pid[c]] = c

\* the sessions whose entry has been stored and whose startUp has not returned
Holding(c) == pc[c] \in {"stored", "registered"}

\* C6: two sessions that have stored themselves never have the same pid, and
\* the entry under a session's pid is its own.
C6_DistinctPids ==
    \A a \in Conns : Holding(a) =>
        /\ allSessions[pid[a]] = a
        /\ \A b \in Conns \ {a} : Holding(b) => pid[a] # pid[b]

\* C7: a connection whose first message was a CancelRequest gets no byte and
\* never reaches the query loop.
C7_CancelConnectionSilent ==
    \A r \in served : wire[r.by] = <<>> /\ pc[r.by] \notin {"next", "read"}

\* C8: the context of a Queryer or Execer call in flight is the session's.
C8_CallUnderSessionContext ==
    \A c \in Conns : pc[c] = "call" => callCtx[c] = "session.Ctx"

Range(f) == {f[i] : i \in DOMAIN f}
IsFatal(m) == IsError(m) /\ m.severity = "FATAL"
AfterHandshakeTypes == {Type(AuthenticationOK), Type(ReadyForQuery),
                        Type(ParameterStatus("", "")), Type(BackendKeyData(0, 0))}

\* the reply to the password request had another tag than 'p', or the
\* password it carried (its body without the terminator) is not the expected
Rejected(c) ==
    /\ reply[c].t \notin {"none", "EOF"}
    /\ \/ reply[c].tag # "p"
       \/ SubSeq(reply[c].body, 1, Len(reply[c].body) - 1) # Expected(c)

\* C9: under the cleartext and the MD5 authenticator AuthenticationOK is on
\* the wire only if the reply read had tag 'p' and its password is the
\* expected value; after a reply with another tag or another password the
\* wire holds the password request and then one ErrorResponse, of severity
\* FATAL, and nothing else, the session is not in the registry, and the
\* connection is closed.
C9_PasswordGate ==
    \A c \in Conns : authenticator \in {"plain", "md5"} =>
        /\ AuthenticationOK \in Range(wire[c]) =>
              /\ reply[c].t = "PasswordMessage"
              /\ reply[c].tag = "p"
              /\ extractPassword(reply[c]) = Expected(c)
        /\ Rejected(c) =>
              /\ Cardinality(Errors(wire[c])) = 1
              /\ IsFatal(wire[c][Len(wire[c])])
              /\ \A i \in 1..Len(wire[c]) :
                    IsError(wire[c][i]) \/ Type(wire[c][i]) \notin AfterHandshakeTypes
                    \/ wire[c][i].t \in {"AuthenticationCleartextPassword",
                                         "AuthenticationMD5Password"}
              /\ \A p \in Int32 : allSessions[p] # c
              /\ pc[c] = "failed"
              /\ connClosed[c]

\* from AuthenticationOK on the wire reads AuthenticationOK, ParameterStatus,
\* BackendKeyData(pid, secret), ReadyForQuery
StartupOrder(c) ==
    \A i \in 1..Len(wire[c]) : wire[c][i] = AuthenticationOK =>
        /\ Len(wire[c]) >= i + 1 => wire[c][i + 1] = ParameterStatus("client_encoding", "utf8")
        /\ Len(wire[c]) >= i + 2 => wire[c][i + 2] = BackendKeyData(pid[c], Secret[c])
        /\ Len(wire[c]) >= i + 3 => wire[c][i + 3] = ReadyForQuery

\* C10: after AuthenticationOK come ParameterStatus(client_encoding, utf8),
\* BackendKeyData(pid, secret) and the first ReadyForQuery, in that order, and
\* a ReadyForQuery on the wire has AuthenticationOK before it.
C10_StartupOrder ==
    \A c \in Conns :
        /\ StartupOrder(c)
        /\ \A k \in 1..Len(wire[c]) : wire[c][k] = ReadyForQuery =>
              \E i \in 1..(k - 1) : wire[c][i] = AuthenticationOK

\* ------------------------------------------------------------------- C11
\* how many ReadyForQuery messages a connection has been sent
ReadyCount(w) == Cardinality({i \in 1..Len(w) : w[i] = ReadyForQuery})

\* the session's goroutine calls NextFrontendMessage and goes on to its read
\* (or past it, or fails)
ReadStep(c) == pc[c] = "next" /\ pc'[c] # "next"

\* the step reads a client message
Reads(c) == nread'[c] # nread[c]

\* C11: a call of NextFrontendMessage on an open connection with no
\* transaction active appends exactly one ReadyForQuery with status 'I' to
\* the wire and reads nothing yet; the message is read in a later step, when
\* that ReadyForQuery is the last message on the wire; a call made while a
\* transaction is active, and every other step of the session, leaves the
\* number of ReadyForQuery messages on the wire unchanged.
C11_ReadyBeforeReadOutsideTransaction ==
    [][\A c \in Conns :
          /\ IF ReadStep(c) /\ ~transaction[c].active /\ ~connClosed[c]
             THEN /\ wire'[c] = Append(wire[c], ReadyForQuery)
                  /\ ReadyForQuery.status = "I"
                  /\ ~Reads(c)
             ELSE ReadyCount(wire'[c]) = ReadyCount(wire[c])
          /\ (Reads(c) /\ ~transaction[c].active)
                => /\ wire[c] # <<>>
                   /\ wire[c][Len(wire[c])] = ReadyForQuery]_vars

\* a session has read its first message outside a transaction and a later
\* one inside it: one ReadyForQuery is on the wire after two reads
C11_Witness ==
    \E c \in Conns :
        /\ transaction[c].active
        /\ nread[c] >= 2
        /\ ReadyCount(wire[c]) = 1

\* ------------------------------------------------------------------- C12
\* what the session has been sent since its last message was read
Answer(c, w) == SubSeq(w, readAt[c] + 1, Len(w))

\* the Query being handled has failed in the parser, which refused its text
QueryFailed(c) ==
    /\ msg[c].t = "Query"
    /\ ParseSQL(msg[c].sql).err

\* the step in which the Queryer or the Execer returns an error
CallFails(c) == pc[c] = "call" /\ ~run[c].err /\ run'[c].err

\* C12: the step in which the session finishes handling a simple Query the
\* parser refused leaves exactly one ErrorResponse in the answer to that
\* Query, as its last message, and the session goes on to its next read
\* (where ReadyForQuery follows); the step in which the Queryer or the Execer
\* returns an error for a statement of a simple Query leaves the process
\* running and one ErrorResponse, its last message, in the answer.
C12_FailedQueryAnsweredByError ==
    [][\A c \in Conns :
          /\ (QueryFailed(c) /\ pc[c] = "dispatch" /\ pc'[c] # "dispatch")
                => /\ pc'[c] = "next"
                   /\ LET a == Answer(c, wire'[c])
                      IN /\ Cardinality(Errors(a)) = 1
                         /\ IsError(a[Len(a)])
          /\ (msg[c].t = "Query" /\ CallFails(c))
                => /\ ~panicked'
                   /\ LET a == Answer(c, wire'[c])
                      IN /\ Cardinality(Errors(a)) = 1
                         /\ IsError(a[Len(a)])]_vars

\* ------------------------------------------------------------------- C13
\* the step finishes the handling of a Parse whose text the parser refused,
\* or is the one in which the Queryer or Execer of an Execute returns an
\* error
ExtendedFailed(c) ==
    \/ /\ msg[c].t = "Parse" /\ ParseSQL(msg[c].sql).err
       /\ pc[c] = "dispatch" /\ pc'[c] # "dispatch"
    \/ msg[c].t = "Execute" /\ CallFails(c)

\* C13: the step in which the session finishes handling a Parse the parser
\* rejected, or in which the Queryer or Execer of an Execute returns an
\* error, leaves the process and the session running (the session neither
\* failed nor done) with its transaction still active and an ErrorResponse in
\* the transaction's buffer (so that the next Sync flushes the messages
\* queued before it, then the ErrorResponse, and discards the pending
\* statements).
C13_ExtendedErrorIsBuffered ==
    [][\A c \in Conns :
          ExtendedFailed(c)
              => /\ ~panicked'
                 /\ pc'[c] \notin {"failed", "done"}
                 /\ transaction'[c].active
                 /\ hasError(transaction'[c].out)]_vars

\* ------------------------------------------------------------------- C14
\* the Execute being dispatched names a portal the session does not hold
ExecuteOfMissingPortal(c) ==
    /\ pc[c] = "dispatch"
    /\ msg[c].t = "Execute"
    /\ portals[c][msg[c].portal] = NoPortal

\* the session has been answered, on the wire or in its transaction's
\* buffer, with an ErrorResponse of the given code
AnsweredWithCode(c, code, w, tr) ==
    \E m \in Range(Answer(c, w)) \cup Range(tr.out) : IsError(m) /\ m.code = code

\* C14: the step that handles the end of a transaction, ended or failed,
\* leaves the portal map empty; the step that handles an Execute naming a
\* portal the session does not hold starts no Queryer or Execer call and
\* answers with an ErrorResponse of code 34000 (unless the transaction's
\* buffer already holds an error, after which writes are dropped).
C14_PortalsEndWithTransaction ==
    [][\A c \in Conns :
          /\ (pc[c] = "state" /\ ts[c] \in {TransactionEnded, TransactionFailed} /\ pc'[c] # "state")
                => portals'[c] = EmptyPortals
          /\ (ExecuteOfMissingPortal(c) /\ pc'[c] # "dispatch")
                => /\ pc'[c] = "next"
                   /\ callCtx'[c] = "none"
                   /\ \/ hasError(transaction[c].out)
                      \/ AnsweredWithCode(c, "34000", wire'[c], transaction'[c])]_vars

\* ------------------------------------------------------------------- C15
\* the conversation of C15
HappyPath ==
    <<Parse("s1", "SELECT 1", TRUE), Bind("s1", ""), Describe("S", "s1"), Execute("", 0), Sync>>

\* the answers to HappyPath when the Queryer yields k rows
HappyAnswers(k) ==
    <<ParseComplete, BindComplete, ParameterDescription, RowDescription>>
        \o [i \in 1..k |-> DataRow(i)]
        \o <<CommandComplete("SELECT " \o ToString(k))>>

\* the Queryer has returned rows for the Execute of HappyPath
HappyRowsReturned(c) ==
    /\ IsPrefix(HappyPath, script)
    /\ msg[c] = Execute("", 0)
    /\ run[c].handed = RowDescription

\* C15: when a client sends Parse("s1"), Bind("", "s1"), Describe('S', "s1"),
\* Execute("", 0) and Sync, the Execute runs the statement the Bind found
\* (parsed in the same transaction, so found in the pending map), and the
\* return of the Queryer's rows leaves the process running; once the session
\* has read the Sync, what that read flushed to the wire is ParseComplete,
\* BindComplete, ParameterDescription, RowDescription, the DataRows of the
\* Queryer's rows and CommandComplete, in that order; the next message the
\* session writes is ReadyForQuery; and once the end of the transaction has
\* been handled s1 is in the live map while the pending map and the portal
\* map are empty.
C15_ExtendedHappyPath ==
    \A c \in Conns :
        /\ (IsPrefix(HappyPath, script) /\ msg[c] = Execute("", 0) /\ pc[c] \in {"run", "call"})
              => /\ pendingStmts[c]["s1"] = [rawSQL |-> "SELECT 1", query |-> "SelectStmt"]
                 /\ stmts[c]["s1"] = NoStmt
                 /\ portals[c][""].srcPreparedStatement = "s1"
        /\ HappyRowsReturned(c) => ~panicked
        /\ (pc[c] # "off" /\ IsPrefix(HappyPath, script) /\ nread[c] >= Len(HappyPath))
              => /\ flushed[c].by = "Sync"
                 /\ \E k \in 0..MaxRows : flushed[c].out = HappyAnswers(k)
                 /\ SubSeq(wire[c], flushed[c].at + 1, flushed[c].at + Len(flushed[c].out))
                       = flushed[c].out
                 /\ ReadyForQueryFollowsFlush(c)
                 /\ (nread[c] > Len(HappyPath) \/ pc[c] = "failed")
                       => Len(wire[c]) > flushed[c].at + Len(flushed[c].out)
                 /\ (nread[c] > Len(HappyPath) \/ pc[c] # "state")
                       => stmts[c]["s1"] = [rawSQL |-> "SELECT 1", query |-> "SelectStmt"]
                 /\ (nread[c] = Len(HappyPath) /\ pc[c] # "state")
                       => /\ pendingStmts[c] = EmptyStmts
                          /\ portals[c] = EmptyPortals

\* ------------------------------------------------------------------- C16
\* the Query being handled holds one row-returning statement
RowQuery(c) == msg[c].t = "Query" /\ ParseSQL(msg[c].sql) = [err |-> FALSE, stmts |-> <<"SelectStmt">>]

\* the answer to a row-returning Query whose Queryer yielded n rows
RowAnswer(n) ==
    <<RowDescription>> \o [i \in 1..n |-> DataRow(i)]
        \o <<CommandComplete("SELECT " \o ToString(n))>>

\* the step in which the Queryer returns its rows for that statement
QueryerReturnsRows(c) == RowQuery(c) /\ pc[c] = "call" /\ run'[c] # run[c] /\ ~run'[c].err

\* C16: the step in which the Queryer returns its rows for a simple Query
\* of one row-returning statement leaves the process running; the step in
\* which the session finishes that Query leaves as the whole answer to it
\* RowDescription, DataRow 1..n and CommandComplete("SELECT n"), in that
\* order, for the number n of rows; and the session's next call of
\* NextFrontendMessage appends ReadyForQuery right after that answer.
C16_SimpleQueryRows ==
    [][\A c \in Conns :
          /\ QueryerReturnsRows(c) => ~panicked'
          /\ (RowQuery(c) /\ pc[c] \in {"run", "call"} /\ pc'[c] = "next")
                => \E n \in 0..MaxRows : Answer(c, wire'[c]) = RowAnswer(n)
          /\ (RowQuery(c) /\ ReadStep(c))
                => /\ \E n \in 0..MaxRows : Answer(c, wire[c]) = RowAnswer(n)
                   /\ wire'[c] = Append(wire[c], ReadyForQuery)]_vars

\* ------------------------------------------------------------------- C17
\* the session has handled a Terminate
Terminated(c) == msg[c].t = "Terminate" /\ pc[c] \notin {"state", "dispatch"}

\* C17: once a session has handled a Terminate its connection is closed,
\* Serve has returned without an error (it is neither back in its loop nor
\* ended by an error), and nothing has been written since the Terminate was
\* read.
C17_TerminateReturnsCleanly ==
    \A c \in Conns :
        Terminated(c)
            => /\ connClosed[c]
               /\ pc[c] \notin {"next", "failed"}
               /\ Answer(c, wire[c]) = <<>>

\* ------------------------------------------------------------------- C18
\* the message types the spec gives the session a handler for
HandledTypes == {"Terminate", "Query", "Parse", "Bind", "Describe", "Execute", "Sync"}

\* the message being dispatched is of a type with no handler
Unhandled(c) == pc[c] = "dispatch" /\ msg[c].t \notin HandledTypes

\* C18: the step that dispatches a message of a type the session does not
\* handle hands exactly one ErrorResponse with code 0A000 to the transport
\* (which appends it to the wire, or to the transaction's buffer unless that
\* already holds an error), returns no error, leaves the connection open and
\* takes the session to its next read.
C18_UnhandledTypeAnswered ==
    [][\A c \in Conns :
          (Unhandled(c) /\ pc'[c] # "dispatch")
              => /\ pc'[c] = "next"
                 /\ ~connClosed'[c]
                 /\ \/ hasError(transaction[c].out)
                    \/ /\ AnsweredWithCode(c, "0A000", wire'[c], transaction'[c])
                       /\ Len(wire'[c]) + Len(transaction'[c].out)
                             = Len(wire[c]) + Len(transaction[c].out) + 1]_vars

\* ------------------------------------------------------------------- C19
\* the connection's first message was an SSLRequest and has been refused
TLSRefused(c) == Len(wire[c]) >= 1 /\ wire[c][1].t = "TLSResponse"

\* Handshake.Init has put the message it read last to its version test: it
\* was the first message and neither a CancelRequest nor an SSLRequest, or it
\* was the message read after a refused SSLRequest
VersionTested(c) ==
    /\ startupMsg[c] \notin {NoMsg, EOF}
    /\ pc[c] \notin {"init", "tls"}
    /\ TLSRefused(c) \/ (~IsCancel(startupMsg[c]) /\ ~IsTLSRequest(startupMsg[c]))

\* C19: a handshake is marked passed only if the message put to the version
\* test had version 3.0; when that message has any other version Init has
\* returned an error: the handshake is not passed, the session has ended, no
\* authentication message (request or AuthenticationOK) and nothing of the
\* query loop has been written, and no registry entry or key was made for it.
C19_OnlyVersion3Passes ==
    \A c \in Conns :
        /\ passed[c] => VersionTested(c) /\ StartupVersion(startupMsg[c]) = "3.0"
        /\ (VersionTested(c) /\ StartupVersion(startupMsg[c]) # "3.0")
              => /\ ~passed[c]
                 /\ pc[c] = "failed"
                 /\ \A i \in 1..Len(wire[c]) : wire[c][i] = TLSResponse(FALSE)
                 /\ reply[c] = NoMsg
                 /\ nread[c] = 0
                 /\ CancelFunc[c] = "nil"

\* a StartupMessage of version 2.0 has been rejected
C19_Witness ==
    \E c \in Conns :
        /\ startupMsg[c] = StartupMessage("2.0", {"user"})
        /\ pc[c] = "failed"
        /\ ~passed[c]

\* ------------------------------------------------------------------- C20
\* the single byte 'N'
RefusalByte == [t |-> "TLSResponse", b |-> "N"]

\* C20: a connection whose first message was an SSLRequest has been sent the
\* single byte 'N' as its first message and no other TLS answer; while the
\* server waits for the message after it nothing else has been written and
\* the connection is open; a StartupMessage of version 3.0 read after it
\* passes the handshake; a second SSLRequest read after it ends the session
\* with an error, not passed, with nothing written but the 'N'.
C20_TLSRefusedThenRetry ==
    \A c \in Conns :
        /\ \A i \in 1..Len(wire[c]) :
              wire[c][i].t = "TLSResponse" => i = 1 /\ wire[c][i] = RefusalByte
        /\ pc[c] = "tls"
              => /\ startupMsg[c] = SSLRequest
                 /\ wire[c] = <<RefusalByte>>
                 /\ ~connClosed[c]
                 /\ ~passed[c]
        /\ (TLSRefused(c) /\ pc[c] # "tls" /\ startupMsg[c].t = "StartupMessage"
                /\ startupMsg[c].version = "3.0")
              => passed[c]
        /\ (TLSRefused(c) /\ pc[c] # "tls" /\ startupMsg[c] = SSLRequest)
              => /\ pc[c] = "failed"
                 /\ ~passed[c]
                 /\ wire[c] = <<RefusalByte>>

\* an SSLRequest was refused and a second one has been read
C20_Witness ==
    \E c \in Conns :
        /\ TLSRefused(c)
        /\ pc[c] = "failed"
        /\ startupMsg[c] = SSLRequest

\* ------------------------------------------------------------------- C21
\* the session holds an unnamed prepared statement
HasUnnamed(c) == getPreparedStmt(pendingStmts[c], stmts[c], "") # NoStmt

\* the step handles a Bind or a Describe 'S' that names the unnamed statement
UsesUnnamed(c) ==
    /\ pc[c] = "dispatch" /\ pc'[c] # "dispatch"
    /\ \/ msg[c].t = "Bind" /\ msg[c].stmt = ""
       \/ msg[c].t = "Describe" /\ msg[c].objectType = "S" /\ msg[c].name = ""

\* C21: the step that finishes a simple Query leaves the session without an
\* unnamed prepared statement; an unnamed statement appears only in the step
\* that handles a Parse with an empty name; and a Bind or Describe of the
\* unnamed statement handled while there is none adds nothing but an
\* ErrorResponse to the transaction's buffer (no BindComplete, no
\* ParameterDescription) and binds no portal.
C21_QueryClearsUnnamed ==
    [][\A c \in Conns :
          /\ (msg[c].t = "Query" /\ pc[c] \in {"dispatch", "run"} /\ pc'[c] = "next")
                => ~HasUnnamed(c)'
          /\ (~HasUnnamed(c) /\ HasUnnamed(c)')
                => pc[c] = "dispatch" /\ msg[c].t = "Parse" /\ msg[c].name = ""
          /\ (UsesUnnamed(c) /\ ~HasUnnamed(c))
                => /\ hasError(transaction'[c].out)
                   /\ \A i \in (Len(transaction[c].out) + 1)..Len(transaction'[c].out) :
                         IsError(transaction'[c].out[i])
                   /\ portals'[c] = portals[c]]_vars

\* the unnamed statement was parsed and committed by Sync, a simple Query
\* was handled to its end, and the Bind of the unnamed statement after it
\* has been refused
C21_Witness ==
    \E c \in Conns :
        /\ Len(script) = 6
        /\ script[1].name = ""
        /\ script[4] = Sync
        /\ script[5] = Query("PREPARE p AS SELECT 1")
        /\ flushed[c].by = "Sync"
        /\ flushed[c].out = <<ParseComplete, BindComplete, ParameterDescription, RowDescription>>
        /\ nread[c] = 6
        /\ msg[c] = Bind("", "")
        /\ pc[c] = "next"
        /\ hasError(transaction[c].out)

\* ------------------------------------------------------------------- C22
\* NextFrontendMessage returns a message to the session
Returns(c) == pc[c] \in {"next", "read"} /\ pc'[c] = "state"

\* the message returned is a Query or Sync read while a transaction is active
EndsTransaction(c) == transaction[c].active /\ msg'[c].t \in {"Query", "Sync"}

\* C22: when NextFrontendMessage returns a message, the status it returns is
\* TransactionFailed if the message is a Query or Sync read in an active
\* transaction whose buffer holds an ErrorResponse, TransactionEnded if it is
\* one read in an active transaction whose buffer holds none, and neither for
\* every other message; the status changes in no other step; and a
\* transaction stops being active only in a step that returns one of the two,
\* so each end is reported once.
C22_StatusReportsTransactionEnd ==
    [][\A c \in Conns :
          /\ Returns(c)
                => ts'[c] = IF EndsTransaction(c)
                            THEN IF Errors(transaction[c].out) # {}
                                 THEN TransactionFailed ELSE TransactionEnded
                            ELSE NoStatus
          /\ ~Returns(c) /\ pc'[c] # "failed" => ts'[c] = ts[c]
          /\ (transaction[c].active /\ ~transaction'[c].active)
                => Returns(c) /\ ts'[c] \in {TransactionEnded, TransactionFailed}
          /\ (Returns(c) /\ ts'[c] \in {TransactionEnded, TransactionFailed})
                => transaction[c].active /\ ~transaction'[c].active]_vars

\* a Sync has ended a transaction whose buffer held an ErrorResponse after
\* another message
C22_Witness ==
    \E c \in Conns :
        /\ msg[c].t = "Sync"
        /\ ts[c] = TransactionFailed
        /\ Len(flushed[c].out) >= 2
        /\ ~transaction[c].active

\* ------------------------------------------------------------------- C23
BeginTypes == {"Parse", "Bind", "Describe"}
EndTypes == {"Query", "Sync"}

\* C23: a transaction becomes active only when NextFrontendMessage returns a
\* Parse, Bind or Describe read with no transaction active, and then its
\* buffer is empty; any other message returned with no transaction active
\* leaves none active; a message other than Query and Sync returned inside a
\* transaction leaves the transaction and its buffer as they were; a Query or
\* Sync returned inside a transaction leaves no transaction active; and a
\* transaction stops being active in no other step.
C23_TransactionBoundaries ==
    [][\A c \in Conns :
          /\ (~transaction[c].active /\ transaction'[c].active)
                => Returns(c) /\ msg'[c].t \in BeginTypes /\ transaction'[c].out = <<>>
          /\ (Returns(c) /\ ~transaction[c].active)
                => (transaction'[c].active <=> msg'[c].t \in BeginTypes)
          /\ (Returns(c) /\ transaction[c].active /\ msg'[c].t \notin EndTypes)
                => transaction'[c] = transaction[c]
          /\ (Returns(c) /\ transaction[c].active /\ msg'[c].t \in EndTypes)
                => ~transaction'[c].active
          /\ (transaction[c].active /\ ~transaction'[c].active)
                => Returns(c) /\ msg'[c].t \in EndTypes]_vars

\* a Parse, Bind or Describe has been read inside a transaction whose buffer
\* already held an answer, and the buffer has grown since
C23_Witness ==
    \E c \in Conns :
        /\ transaction[c].active
        /\ msg[c].t \in BeginTypes
        /\ nread[c] >= 2
        /\ Len(transaction[c].out) >= 2

\* ------------------------------------------------------------------- C24
\* the session's transaction holds an ErrorResponse
InFailedTransaction(c) == transaction[c].active /\ hasError(transaction[c].out)

\* C24: while the active transaction's buffer holds an ErrorResponse no step
\* of the session stores a prepared statement, binds a portal or starts a
\* Queryer or Execer call.
C24_RestOfFailedTransactionDropped ==
    [][\A c \in Conns :
          InFailedTransaction(c)
              => /\ pendingStmts'[c] = pendingStmts[c]
                 /\ stmts'[c] = stmts[c]
                 /\ portals'[c] = portals[c]
                 /\ pc'[c] \notin {"run", "call"}]_vars

\* ------------------------------------------------------------------- C25
\* the Parse being dispatched holds more than one statement
ParseOfMany(c) ==
    /\ pc[c] = "dispatch" /\ msg[c].t = "Parse"
    /\ ~ParseSQL(msg[c].sql).err /\ Len(ParseSQL(msg[c].sql).stmts) > 1

\* the Parse being dispatched holds one statement and a parameter OID that is
\* not in the session's table
ParseOfUnknownOID(c) ==
    /\ pc[c] = "dispatch" /\ msg[c].t = "Parse"
    /\ ~ParseSQL(msg[c].sql).err /\ Len(ParseSQL(msg[c].sql).stmts) <= 1
    /\ ~msg[c].oids

\* what the step added to the transaction's buffer
Buffered(c) ==
    SubSeq(transaction'[c].out, Len(transaction[c].out) + 1, Len(transaction'[c].out))

\* C25: the step that handles a Parse of more than one statement, or of a
\* parameter OID the session does not know, leaves the pending and the live
\* statement map unchanged, takes the session to its next read, and adds to
\* the transaction's buffer exactly one ErrorResponse (with code 42601 in the
\* multi-statement case) and no ParseComplete, unless the buffer already held
\* an error.
C25_FailedParseStoresNothing ==
    [][\A c \in Conns :
          ((ParseOfMany(c) \/ ParseOfUnknownOID(c)) /\ pc'[c] # "dispatch")
              => /\ pendingStmts'[c] = pendingStmts[c]
                 /\ stmts'[c] = stmts[c]
                 /\ pc'[c] = "next"
                 /\ ~connClosed'[c]
                 /\ \/ hasError(transaction[c].out) /\ Buffered(c) = <<>>
                    \/ /\ Len(Buffered(c)) = 1
                       /\ IsError(Buffered(c)[1])
                       /\ ParseOfMany(c) => Buffered(c)[1].code = "42601"]_vars

\* ------------------------------------------------------------------- C26
\* the step handles a Bind
BindStep(c) == pc[c] = "dispatch" /\ msg[c].t = "Bind" /\ pc'[c] # "dispatch"

\* the Bind's source statement is in the pending or the live map
BindSourceKnown(c) == getPreparedStmt(pendingStmts[c], stmts[c], msg[c].stmt) # NoStmt

\* C26: the step that handles a Bind whose source statement is in neither
\* map leaves the portal map unchanged, returns to the loop without an error
\* and adds to the transaction's buffer one ErrorResponse with code 26000 and
\* no BindComplete (nothing if the buffer already held an error); the step
\* that handles a Bind whose source statement is known sets the destination
\* portal to a fresh portal of that statement, leaves every other portal
\* unchanged, and adds BindComplete.
C26_BindFrame ==
    [][\A c \in Conns :
          BindStep(c)
              => /\ pc'[c] = "next"
                 /\ IF BindSourceKnown(c)
                    THEN /\ portals'[c][msg[c].portal].srcPreparedStatement = msg[c].stmt
                         /\ portals'[c][msg[c].portal].result = NoResult
                         /\ \A n \in Names \ {msg[c].portal} : portals'[c][n] = portals[c][n]
                         /\ \/ hasError(transaction[c].out) /\ Buffered(c) = <<>>
                            \/ Buffered(c) = <<BindComplete>>
                    ELSE /\ portals'[c] = portals[c]
                         /\ \/ hasError(transaction[c].out) /\ Buffered(c) = <<>>
                            \/ /\ Len(Buffered(c)) = 1
                               /\ IsError(Buffered(c)[1])
                               /\ Buffered(c)[1].code = "26000"]_vars

\* ------------------------------------------------------------------- C27
\* the step finishes an Execute whose statement has been run
ExecuteStep(c) ==
    /\ msg[c].t = "Execute"
    /\ pc[c] \in {"run", "call"} /\ pc'[c] = "next"

\* the step in which the Queryer returns its rows for the statement of an
\* Execute
QueryerReturnsForExecute(c) ==
    /\ msg[c].t = "Execute" /\ pc[c] = "call"
    /\ Head(run[c].stmts) \in QueryNodes
    /\ run'[c] # run[c] /\ ~run'[c].err

Min(a, b) == IF a < b THEN a ELSE b

\* what the first Execute with maxRows n of a portal whose cursor holds L
\* rows has to buffer: the first n rows, or all when n = 0, and then
\* CommandComplete with their number when the fetch met the end of the rows
\* and PortalSuspended otherwise
FirstFetch(n, L) ==
    LET k == IF n = 0 THEN L ELSE Min(n, L)
    IN [i \in 1..k |-> DataRow(i)]
         \o <<IF n = 0 \/ n > L THEN CommandComplete("SELECT " \o ToString(k))
              ELSE PortalSuspended>>

\* C27: the step in which the Queryer returns its rows for the statement of
\* an Execute leaves the process running, with a cursor to fetch from; and
\* the step that finishes the Execute, with maxRows n, adds to the
\* transaction's buffer (unless it already held an error) at most n DataRows
\* when n > 0 and all rows when n = 0, followed by CommandComplete with the
\* number of rows when the fetch met the end of the rows and by
\* PortalSuspended otherwise.
C27_ExecuteRespectsMaxRows ==
    [][\A c \in Conns :
          /\ QueryerReturnsForExecute(c) => ~panicked'
          /\ (ExecuteStep(c) /\ Head(run[c].stmts) \in QueryNodes
                 /\ ~hasError(transaction[c].out))
                => \E L \in 0..MaxRows : Buffered(c) = FirstFetch(msg[c].maxRows, L)]_vars

\* ------------------------------------------------------------------- C28
\* the portal the message being handled names
ThePortal(c) == portals[c][msg[c].portal]

\* the step ends the run of an Execute's statement: the Queryer's or the
\* Execer's call returns a result, or Run returns having made no call
ExecuteRunEnds(c) ==
    /\ msg[c].t = "Execute"
    /\ \/ pc[c] = "call" /\ run'[c] # run[c] /\ ~run'[c].err
       \/ pc[c] = "run" /\ run[c].stmts = <<>> /\ (pc'[c] # "run" \/ panicked' # panicked)

\* C28: a statement is run for an Execute only if the portal named has no
\* result yet; the step that ends that run leaves the process running and
\* the result stored in the portal; an Execute of a portal that has a result
\* is finished in one step with no run and no call; and a portal loses its
\* result only when a Bind replaces the portal or the end of the transaction
\* discards it.
C28_PortalRunsOnce ==
    [][\A c \in Conns :
          /\ (msg[c].t = "Execute" /\ pc[c] = "dispatch" /\ pc'[c] = "run")
                => ThePortal(c) # NoPortal /\ ThePortal(c).result = NoResult
          /\ (msg[c].t = "Execute" /\ pc'[c] = "call")
                => ThePortal(c).result = NoResult
          /\ ExecuteRunEnds(c)
                => /\ ~panicked'
                   /\ portals'[c][msg[c].portal].result # NoResult
          /\ (msg[c].t = "Execute" /\ pc[c] = "dispatch" /\ ThePortal(c).result # NoResult)
                => pc'[c] \in {"dispatch", "next"} /\ callCtx'[c] = "none"
          /\ \A n \in Names :
                (portals[c][n].result # NoResult /\ portals'[c][n].result = NoResult)
                    => \/ pc[c] = "state"
                       \/ pc[c] = "dispatch" /\ msg[c].t = "Bind" /\ msg[c].portal = n]_vars

\* ------------------------------------------------------------------- C29
\* the step handles a Describe
DescribeStep(c) == pc[c] = "dispatch" /\ msg[c].t = "Describe" /\ pc'[c] # "dispatch"

\* C29: the step that handles a Describe returns to the loop without an
\* error and, unless the transaction's buffer already held an error (then it
\* adds nothing), adds to the buffer ParameterDescription then RowDescription
\* for object type 'S' of a statement in the pending or the live map,
\* RowDescription for object type 'P', and one ErrorResponse with code 22023
\* for any other object type.
C29_DescribeAnswers ==
    [][\A c \in Conns :
          (DescribeStep(c)
             /\ (msg[c].objectType = "S"
                    => getPreparedStmt(pendingStmts[c], stmts[c], msg[c].name) # NoStmt))
              => /\ pc'[c] = "next"
                 /\ ~connClosed'[c]
                 /\ \/ hasError(transaction[c].out) /\ Buffered(c) = <<>>
                    \/ msg[c].objectType = "S"
                          /\ Buffered(c) = <<ParameterDescription, RowDescription>>
                    \/ msg[c].objectType = "P" /\ Buffered(c) = <<RowDescription>>
                    \/ /\ msg[c].objectType \notin {"S", "P"}
                       /\ Len(Buffered(c)) = 1
                       /\ IsError(Buffered(c)[1])
                       /\ Buffered(c)[1].code = "22023"]_vars

\* ------------------------------------------------------------------- C30
\* the step is query.Run storing the PREPARE statement of a simple Query
PrepareByQueryStep(c) ==
    /\ Running(c) /\ msg[c].t = "Query"
    /\ Head(run[c].stmts) = "PrepareStmt"
    /\ run'[c] # run[c]

\* the statement a PREPARE stored can be retrieved from maps p and s
Retrievable(p, s) == getPreparedStmt(p, s, PrepareName) # NoStmt

\* C30: the step that stores the PREPARE statement of a simple Query puts it
\* in the live statement map under its name and writes and buffers nothing;
\* and a statement stored by PREPARE that can be retrieved before a step can
\* be retrieved after it, whatever the step (the end of an ended or of a
\* failed transaction included).
C30_PrepareByQueryPersists ==
    [][\A c \in Conns :
          /\ PrepareByQueryStep(c)
                => /\ stmts'[c][PrepareName] # NoStmt
                   /\ wire'[c] = wire[c]
                   /\ transaction'[c] = transaction[c]
          /\ Retrievable(pendingStmts[c], stmts[c])
                => Retrievable(pendingStmts'[c], stmts'[c])]_vars

\* ------------------------------------------------------------------- C31
\* the CancelRequest of connection c names session s: its pid and its secret
\* are those startUp drew for s
RequestNames(c, s) == passed[s] /\ req[c].pid = pid[s] /\ req[c].secret = Secret[s]

\* the step finishes the CancelRequest of connection c (the test of what its
\* Load returned, and the call of the hook on a match)
CancelStep(c) == pc[c] = "cancelLoaded" /\ (pc'[c] # pc[c] \/ panicked' # panicked)

\* a CancelRequest that matched session s when s had handled a Query and
\* had none in flight has been served
CancelledAfterQuery(s) == \E r \in served : r.loaded = s /\ r.match /\ r.afterQuery

\* C31: the step that finishes a CancelRequest naming a session that has
\* handled a simple Query to its end and has no query in flight leaves the
\* process running, writes nothing to that session's connection, does not
\* close it and leaves the session's goroutine and its statements where they
\* are; and a call the session makes to the Queryer or the Execer after such
\* a request matched it is not made under a cancelled context.
C31_IdleCancelIsNoOp ==
    [][\A c \in Conns, s \in Conns :
          /\ (CancelStep(c) /\ RequestNames(c, s) /\ Idle(s))
                => /\ ~panicked'
                   /\ wire'[s] = wire[s]
                   /\ connClosed'[s] = connClosed[s]
                   /\ pc'[s] = pc[s]
                   /\ stmts'[s] = stmts[s]
                   /\ run'[s] = run[s]
          /\ (CancelledAfterQuery(s)' /\ pc'[s] = "call")
                => ~(callCtx'[s] = "session.Ctx" /\ ctxDone'[s])]_vars

\* a CancelRequest matched a session that had handled a Query and had none
\* in flight and called its hook, and the session has since made a call to
\* the Queryer, under the context query.Run made
C31_Witness ==
    \E s \in Conns :
        /\ CancelledAfterQuery(s)
        /\ ctxDone[s]
        /\ \E f \in fired : f.target = s
        /\ pc[s] = "call"
        /\ msg[s] = Query("SELECT 1")
        /\ callCtx[s] = RunContext

\* ------------------------------------------------------------------- C32
\* the step reads the message that follows a refused SSLRequest
ReadAfterTLS(c) == pc[c] = "tls" /\ pc'[c] # "tls"

\* C32: the step that reads the message after a refused SSLRequest treats
\* it as a first message: a CancelRequest goes on to the registry lookup with
\* its pid and secret, with nothing written and the connection still open,
\* and a StartupMessage of version 3.0 passes the handshake and goes on to
\* the authentication.
C32_HandshakeRestartsAfterTLS ==
    [][\A c \in Conns :
          ReadAfterTLS(c)
              => /\ startupMsg'[c].t = "CancelRequest"
                    => /\ pc'[c] = "cancel"
                       /\ req'[c] = KeyOf(startupMsg'[c])
                       /\ wire'[c] = wire[c]
                       /\ ~connClosed'[c]
                 /\ (startupMsg'[c].t = "StartupMessage" /\ startupMsg'[c].version = "3.0")
                    => /\ pc'[c] = "auth"
                       /\ passed'[c]
                       /\ args'[c] = startupMsg'[c].keys
                       /\ wire'[c] = wire[c]]_vars

\* ------------------------------------------------------------------- C33
\* the version test let through a StartupMessage with no user argument
NoUserStartup(c) ==
    /\ VersionTested(c)
    /\ startupMsg[c].t = "StartupMessage"
    /\ "user" \notin startupMsg[c].keys

\* C33: a session whose StartupMessage had no user argument has brought no
\* goroutine to a panic, has not been sent AuthenticationOK, and is not past
\* the authentication: it holds no key, is not registered and is not in the
\* query loop.
C33_UserRequired ==
    \A c \in Conns :
        NoUserStartup(c)
            => /\ ~panicked
               /\ \A i \in 1..Len(wire[c]) : wire[c][i] # AuthenticationOK
               /\ pc[c] \in {"auth", "password", "failed"}
               /\ \A p \in Int31 : allSessions[p] # c
               /\ nread[c] = 0

\* ------------------------------------------------------------------- C34
\* the step reads a frame whose length field is below 4
ShortLengthRead(c) ==
    /\ pc[c] \in {"init", "tls"}
    /\ Len(stream[c]) >= 4 /\ Uint32(SubSeq(stream[c], 1, 4)) < 4
    /\ (stream'[c] # stream[c] \/ panicked' # panicked)

\* the step decodes a startup frame that is too short to hold a version
NoVersionDecode(c) ==
    /\ pc[c] = "framed"
    /\ Len(frame[c]) < 8
    /\ (pc'[c] # pc[c] \/ panicked' # panicked)

\* C34: the step that reads a frame with a length field below 4, and the
\* step that decodes a startup frame too short to hold a version, end the
\* session with an error: no goroutine panics, the connection is closed, and
\* the session gets no message from it (no frame is returned, the handshake
\* is not passed, no argument is decoded).
C34_MalformedFrameIsError ==
    [][\A c \in Conns :
          /\ ShortLengthRead(c)
                => /\ ~panicked'
                   /\ pc'[c] = "failed"
                   /\ connClosed'[c]
                   /\ frame'[c] = frame[c]
          /\ NoVersionDecode(c)
                => /\ ~panicked'
                   /\ pc'[c] = "failed"
                   /\ connClosed'[c]
                   /\ ~passed'[c]
                   /\ sessArgs'[c] = sessArgs[c]]_vars

\* ------------------------------------------------------------------- C35
\* the tags of the table that carry no count
CountlessTags == {"SET", "RESET", "VACUUM", "CREATE ROLE", "CREATE VIEW", "CREATE TABLE"}

\* the tag the table gives a statement kind and an affected-row count n
TableTag(node, n) ==
    LET word == CASE node \in {"VariableSetStmt/VAR_SET_VALUE",
                               "VariableSetStmt/VAR_SET_CURRENT",
                               "VariableSetStmt/VAR_SET_DEFAULT",
                               "VariableSetStmt/VAR_SET_MULTI"} -> "SET"
                  [] node \in {"VariableSetStmt/VAR_RESET",
                               "VariableSetStmt/VAR_RESET_ALL"} -> "RESET"
                  [] node = "VacuumStmt" -> "VACUUM"
                  [] node = "CreateRoleStmt" -> "CREATE ROLE"
                  [] node = "ViewStmt" -> "CREATE VIEW"
                  [] node = "CreateStmt" -> "CREATE TABLE"
                  [] node = "InsertStmt" -> "INSERT 0"
                  [] node = "CreateTableAsStmt" -> "SELECT"
                  [] node = "DeleteStmt" -> "DELETE"
                  [] node = "FetchStmt" -> "FETCH"
                  [] node = "CopyStmt" -> "COPY"
                  [] OTHER -> "UPDATE"
    IN IF word \in CountlessTags THEN word ELSE word \o " " \o ToString(n)

\* the Execer has returned a result for the node the call was made for
ExecerReturned(c) == pc[c] = "call" /\ run[c].res # NoRes

\* the node the call in flight was made for
CalledNode(c) == Head(run[c].stmts)

\* the tag a result without a tag of its own gets: "???" and no count for a
\* VariableSetStmt of an unlisted Kind, the table's tag otherwise
AmendedTag(node, n) == IF node = UnlistedSet THEN "???" ELSE TableTag(node, n)

\* the table gives the node a tag that carries a count
Counted(node) == node # UnlistedSet /\ TableTag(node, 0) \notin CountlessTags

RECURSIVE BeforeEmptyKey(_)
BeforeEmptyKey(strings) ==
    IF Len(strings) < 2 \/ strings[1] = <<>>
    THEN <<>>
    ELSE <<strings[1], strings[2]>> \o BeforeEmptyKey(SubSeq(strings, 3, Len(strings)))

\* the startup arguments the client sent: the bytes after the version
Payload(c) == SubSeq(frame[c], 9, Len(frame[c]))

\* C36: the arguments of a session whose StartupMessage passed the
\* handshake are exactly the (key, value) pairs of the payload that precede
\* its first empty key.
C36_ArgsUpToEmptyKey ==
    \A c \in Conns :
        (passed[c] /\ pc[c] = "auth")
            => sessArgs[c] = ArgsOf(BeforeEmptyKey(Strings(Payload(c))))

\* ------------------------------------------------------------------- C37
\* the Query and Sync messages among the first n of the script
QueriesAndSyncs(n) ==
    Cardinality({i \in 1..Min(n, Len(script)) : script[i].t \in {"Query", "Sync"}})

\* C37: the ReadyForQuery messages written to a session's connection are at
\* most one more than the Query and Sync messages the session has read.
C37_ReadyOncePerQueryOrSync ==
    \A c \in Conns :
        pc[c] # "off" => ReadyCount(wire[c]) <= 1 + QueriesAndSyncs(nread[c])

\* ------------------------------------------------------------------- C38
\* C38: every session stored in the registry has its cancel function set,
\* and so has every session a CancelRequest has loaded and matched by its
\* secret.
C38_RegisteredWithCancelFunc ==
    /\ \A p \in Int32 : Found(p) => CancelFunc[allSessions[p]] = "set"
    /\ \A c \in Conns :
          (pc[c] = "cancelLoaded" /\ CancelMatches(loaded[c], req[c].secret))
              => CancelFunc[loaded[c]] = "set"

\* ------------------------------------------------------------------- C39
\* the transport has no transaction and the session has applied the
\* transaction status the last read reported
Settled(c) == ~transaction[c].active /\ pc[c] \notin {"off", "state"}

\* C39: while the transport has no transaction and the session has applied
\* the status of the last read, the session's pending statement map and its
\* portal map are empty.
C39_PendingOnlyInTransaction ==
    \A c \in Conns :
        Settled(c) => pendingStmts[c] = EmptyStmts /\ portals[c] = EmptyPortals

\* a transaction that parsed a statement and bound a portal has been ended
\* by a PREPARE sent as a simple Query, which has run, and the maps are empty
C39_Witness ==
    \E c \in Conns :
        /\ Settled(c)
        /\ msg[c] = Query("PREPARE p AS SELECT 1")
        /\ pc[c] = "run" /\ run[c].stmts = <<>>
        /\ ts[c] = TransactionEnded
        /\ flushed[c].out = <<ParseComplete, BindComplete>>
        /\ pendingStmts[c] = EmptyStmts /\ portals[c] = EmptyPortals

\* ------------------------------------------------------------------- C40
\* the statements of the simple Query being run, in text order
Statements(c) == ParseSQL(msg[c].sql).stmts

\* a simple Query of several statements is being run
RunningMany(c) ==
    /\ msg[c].t = "Query" /\ pc[c] \in {"run", "call"}
    /\ Len(Statements(c)) > 1

\* the step in which the call for a statement returns without an error
CallSucceeds(c) == pc[c] = "call" /\ run'[c] # run[c] /\ ~run'[c].err

\* the statements of the text from the i-th on
From(c, i) == SubSeq(Statements(c), i, Len(Statements(c)))

\* C40: while a simple Query of several statements is run, the statements
\* still to run are the last ones of the text, so each call is passed the
\* next statement in text order; the step in which the call for a statement
\* returns without an error leaves the process running and that statement's
\* response written, ahead of the statements after it; and once a call has
\* returned an error no statement is passed to the Queryer or the Execer
\* any more.
C40_FirstFailureStopsRun ==
    [][\A c \in Conns :
          RunningMany(c)
              => /\ \E i \in 1..(Len(Statements(c)) + 1) : run[c].stmts = From(c, i)
                 /\ run'[c].stmts = run[c].stmts
                       \/ (run[c].stmts # <<>> /\ run'[c].stmts = Tail(run[c].stmts))
                 /\ CallSucceeds(c)
                       => /\ ~panicked'
                          /\ Len(Answer(c, wire'[c])) > Len(Answer(c, wire[c]))
                 /\ run[c].err => pc'[c] = pc[c] /\ run'[c] = run[c]]_vars

====
